---- MODULE Spec2Model ----
(***************************************************************************)
(* HLS_VI_Pipeline: a state-machine model of the raster aggregation        *)
(* stages.  Each stage of the pipeline is an independent batch program, so *)
(* each has its own specification over its own group of variables; the     *)
(* variables of the other stages rest at their idle values.                *)
(*                                                                         *)
(*   SpecMask     step 02  HLSProcessor.process_granule_static (Fmask)     *)
(*   SpecStack    step 10  build_timeseries_stacks / _append_band_to_stack *)
(*   SpecCube     step 03  HLSNetCDFAggregator.run / merge_chunks          *)
(*   SpecOutlier  step 05  process_file (outlier mean / count)             *)
(*   SpecAgg      steps 04/05  process_file (windowed mean / count)        *)
(*   SpecMosaic   step 06  mosaic_vi                                       *)
(*   SpecTiles    hls_utils  filter_by_configured_tiles                    *)
(*   SpecRange    hls_utils  get_valid_range                               *)
(*   SpecParse    step 10  parse_windows                                   *)
(*   SpecMerge    steps 09/10  _mosaic_temp_tiles (rasterio.merge)         *)
(*   SpecPool     steps 04/09/10  one dispatch of the worker pool          *)
(*   SpecGpkg     step 11  main / iter_tile_chunks                         *)
(***************************************************************************)
EXTENDS Integers, Sequences, FiniteSets, TLC

VARIABLES
    \* ---- step 02: one pixel of one granule ----
    fmask,            \* the pixel's Fmask byte
    mask_cfg,         \* the six mask toggles of HLSProcessor.__init__
    aerosol_mode,     \* self.aerosol_mode
    outputs_exist,    \* all(os.path.exists(p) for p in needed_outputs)
    red, nir,         \* the pixel of the red / nir arrays
    granule_result    \* what process_granule_static returned

varsMask == <<fmask, mask_cfg, aerosol_mode, outputs_exist, red, nir, granule_result>>

VARIABLES
    \* ---- step 10: build_timeseries_stacks for one index ----
    windows,          \* the parsed TIMESLICE_WINDOWS: the sequence of labels
    disk,             \* the two stack files and their .tmp files
    pc,               \* position of build_timeseries_stacks
    w_idx,            \* the window of the current iteration
    mean_tile_paths,  \* temp rasters of the tiles that returned 'ok',
    count_tile_paths, \*   in completion order
    n_skipped, n_errors,
    chan,             \* the stack _append_band_to_stack is called on
    apc,              \* position inside _append_band_to_stack
    b_idx,            \* band being streamed from the stack to the .tmp
    band_data,        \* the mosaic passed to the append
    band_num,         \* what the last append returned, per stack
    existing_count,   \* locals of _append_band_to_stack, read when the
    existing_descs,   \*   stack is opened
    create_failed,    \* history: a first write of the stack was cut short
    last_call,        \* history: the stack as the running/failed append found it
    calls             \* history: the successful appends on each stack

varsStack == <<windows, disk, pc, w_idx, mean_tile_paths, count_tile_paths,
               n_skipped, n_errors, chan, apc, b_idx, band_data, band_num,
               existing_count, existing_descs, create_failed, last_call, calls>>

VARIABLES
    \* ---- step 03: HLSNetCDFAggregator.run for one (tile, index) ----
    files,            \* file_org[tile_id][vi_type], sorted by date
    chunk_size,
    nc_disk,          \* the output folder: path 0 is {tile}_{vi}.nc, path k is chunk k
    run_pc,           \* position of run / merge_chunks
    coords,           \* x_coords, y_coords, crs_wkt read from the first file
    total_chunks,
    results,          \* what pool.map returned, per chunk
    m_coords,         \* merge_chunks: y/x/crs read from the first chunk
    total_time,       \* merge_chunks: summed time lengths
    current_t,        \* merge_chunks: time steps copied so far
    m_idx,            \* merge_chunks: the chunk being read
    merge_status,     \* "none", "running", "ok" or "failed"
    merged_from       \* history: the grids of the chunks that were copied

varsCube == <<files, chunk_size, nc_disk, run_pc, coords, total_chunks, results,
              m_coords, total_time, current_t, m_idx, merge_status, merged_from>>

VARIABLES
    \* ---- step 05: process_file for one (cube, index) ----
    cube,             \* da: per pixel, the values along time
    out_disk,         \* which of mean_path / count_path exist
    created,          \* the output files this call wrote
    ol_pc,            \* position of process_file
    n_outliers,
    outlier_mean,     \* per pixel: <<sum, number>> of the values averaged
    outlier_count,    \* per pixel
    file_result       \* what process_file returned

varsOutlier == <<cube, out_disk, created, ol_pc, n_outliers, outlier_mean,
                 outlier_count, file_result>>

VARIABLES
    \* ---- steps 04, 09, 10: one worker call on one cube, at one pixel ----
    a_stage,          \* which worker: "04" process_file, "09" _process_tile,
                      \* "10" _process_tile_window
    a_vals,           \* da at the pixel, along time
    a_days,           \* ds['time'], days since the epoch
    a_window,         \* <<window_start, window_end>> (step 10)
    a_meta,           \* the variable and CRS metadata of the dataset
    a_disk,           \* the output files that exist
    a_written,        \* the files this call wrote
    a_pc,             \* position of the worker
    a_crs,            \* source_crs
    a_sel,            \* the time steps the statistics run over
    a_mean,           \* <<sum, number>> of the values averaged
    a_count,          \* count_valid
    a_result          \* the status the worker returned

varsAgg == <<a_stage, a_vals, a_days, a_window, a_meta, a_disk, a_written, a_pc,
             a_crs, a_sel, a_mean, a_count, a_result>>

VARIABLES
    \* ---- steps 06-09: one mosaic of the tiles of one index ----
    mz_kind,          \* "06": mosaic_vi, mosaic_outlier_mean, mosaic_outlier_count;
                      \* "09": build_count_valid_mosaic with _mosaic_tiles
    tif_files,        \* the input tiles: can each be opened
    output_file,      \* "absent", "partial" or "complete"
    mz_pc,            \* position in the function
    mz_run,           \* which run of the stage this is
    opening,          \* the list the comprehension is building
    src_files,        \* the variable src_files
    open_handles,     \* the raster handles that are open
    mz_outcome        \* how each run ended

varsMosaic == <<mz_kind, tif_files, output_file, mz_pc, mz_run, opening, src_files,
                open_handles, mz_outcome>>

VARIABLES
    \* ---- hls_utils: the tile allow-list ----
    hls_tiles,        \* the text of the HLS_TILES environment variable
    filepaths,        \* the list of paths a stage found
    filtered,         \* what filter_by_configured_tiles returned
    collected,        \* the files collect_files of step 03 kept
    tl_pc

varsTiles == <<hls_tiles, filepaths, filtered, collected, tl_pc>>

VARIABLES
    \* ---- hls_utils.get_valid_range ----
    vi_type,          \* the index asked for
    valid_range_env,  \* the text of VALID_RANGE_{VI}; <<>> when unset or empty
    range_result,     \* the pair returned
    range_warned,     \* was the [WARN] line printed
    vr_pc,
    \* ---- step 10: parse_windows ----
    windows_str,      \* the text of TIMESLICE_WINDOWS
    parsed,           \* the list returned, or ValueError
    pw_pc

varsRange == <<vi_type, valid_range_env, range_result, range_warned, vr_pc>>

varsParse == <<windows_str, parsed, pw_pc>>

VARIABLES
    \* ---- steps 09/10: _mosaic_temp_tiles / rasterio_merge over temp rasters ----
    mg_tiles,         \* the temp rasters the workers wrote, in order of completion
    mg_paths,         \* mean_tile_paths and count_tile_paths
    mg_chan,          \* the channel being merged
    mg_pc,
    mg_k,             \* the source the merge is at
    mg_dest,          \* the destination array of the merge
    mg_temp,          \* the masked array read from the current source
    mg_held,          \* arrays of pixel data alive in the merge
    mg_from,          \* per channel and cell: the tile whose value was copied
    mg_out            \* per channel: the array returned

varsMerge == <<mg_tiles, mg_paths, mg_chan, mg_pc, mg_k, mg_dest, mg_temp, mg_held,
               mg_from, mg_out>>

VARIABLES
    \* ---- steps 04/05 and 09/10: one pool dispatch ----
    pl_stage,         \* the stage: "04" (cube and index) or "09" (tile and index)
    pl_found,         \* the .nc files glob found under NETCDF_DIR
    pl_items,         \* the work items submitted to the pool
    pl_state,         \* per work item: where its worker is, and what it returned
    pl_collected,     \* the results the orchestrator took from as_completed
    pl_pc

varsPool == <<pl_stage, pl_found, pl_items, pl_state, pl_collected, pl_pc>>

VARIABLES
    \* ---- step 11: main and iter_tile_chunks for one index ----
    gp_cubes,         \* work_items: the cubes of the index
    gp_time_chunk,    \* TIME_CHUNK
    gp_bounds,        \* vmin, vmax
    gp_pc,
    gp_tile_idx,      \* the cube main is at
    gp_t_start,       \* iter_tile_chunks: start of the next chunk
    gp_yielded,       \* the records the generator has yielded for this cube
    gp_last,          \* how the iteration over the last cube ended
    gp_n_tile_out,    \* n_tile_out
    gp_total,         \* total_outliers
    gp_features,      \* the features written to the GeoPackage
    gp_exists         \* is the GeoPackage on disk

varsGpkg == <<gp_cubes, gp_time_chunk, gp_bounds, gp_pc, gp_tile_idx, gp_t_start,
              gp_yielded, gp_last, gp_n_tile_out, gp_total, gp_features, gp_exists>>

vars == <<varsMask, varsStack, varsCube, varsOutlier, varsAgg, varsMosaic, varsTiles,
          varsRange, varsParse, varsMerge, varsPool, varsGpkg>>

othersMask == <<varsStack, varsCube, varsOutlier, varsAgg, varsMosaic, varsTiles, varsRange, varsParse, varsMerge, varsPool, varsGpkg>>

othersStack == <<varsMask, varsCube, varsOutlier, varsAgg, varsMosaic, varsTiles, varsRange, varsParse, varsMerge, varsPool, varsGpkg>>

othersCube == <<varsMask, varsStack, varsOutlier, varsAgg, varsMosaic, varsTiles, varsRange, varsParse, varsMerge, varsPool, varsGpkg>>

othersOutlier == <<varsMask, varsStack, varsCube, varsAgg, varsMosaic, varsTiles, varsRange, varsParse, varsMerge, varsPool, varsGpkg>>

othersAgg == <<varsMask, varsStack, varsCube, varsOutlier, varsMosaic, varsTiles, varsRange, varsParse, varsMerge, varsPool, varsGpkg>>

othersMosaic == <<varsMask, varsStack, varsCube, varsOutlier, varsAgg, varsTiles, varsRange, varsParse, varsMerge, varsPool, varsGpkg>>

othersTiles == <<varsMask, varsStack, varsCube, varsOutlier, varsAgg, varsMosaic, varsRange, varsParse, varsMerge, varsPool, varsGpkg>>

othersRange == <<varsMask, varsStack, varsCube, varsOutlier, varsAgg, varsMosaic, varsTiles, varsParse, varsMerge, varsPool, varsGpkg>>

othersParse == <<varsMask, varsStack, varsCube, varsOutlier, varsAgg, varsMosaic, varsTiles, varsRange, varsMerge, varsPool, varsGpkg>>

othersMerge == <<varsMask, varsStack, varsCube, varsOutlier, varsAgg, varsMosaic,
                 varsTiles, varsRange, varsParse, varsPool, varsGpkg>>

othersPool == <<varsMask, varsStack, varsCube, varsOutlier, varsAgg, varsMosaic, varsTiles,
                varsRange, varsParse, varsMerge, varsGpkg>>

othersGpkg == <<varsMask, varsStack, varsCube, varsOutlier, varsAgg, varsMosaic, varsTiles,
                varsRange, varsParse, varsMerge, varsPool>>

(***************************************************************************)
(* The idle values of each stage's variables.                              *)
(***************************************************************************)
IdleMask ==
    /\ fmask = 0
    /\ mask_cfg = <<>>
    /\ aerosol_mode = "NONE"
    /\ outputs_exist = FALSE
    /\ red = "raw"
    /\ nir = "raw"
    /\ granule_result = "idle"

IdleStack ==
    /\ windows = <<>>
    /\ disk = <<>>
    /\ pc = "idle"
    /\ w_idx = 0
    /\ mean_tile_paths = <<>>
    /\ count_tile_paths = <<>>
    /\ n_skipped = 0
    /\ n_errors = 0
    /\ chan = "none"
    /\ apc = "idle"
    /\ b_idx = 0
    /\ band_data = <<>>
    /\ band_num = <<>>
    /\ existing_count = 0
    /\ existing_descs = <<>>
    /\ create_failed = <<>>
    /\ last_call = <<>>
    /\ calls = <<>>

\* no coordinates read yet
NoCoords == [x |-> <<>>, y |-> <<>>, crs |-> ""]

IdleCube ==
    /\ files = <<>>
    /\ chunk_size = 0
    /\ nc_disk = <<>>
    /\ run_pc = "idle"
    /\ coords = NoCoords
    /\ total_chunks = 0
    /\ results = <<>>
    /\ m_coords = NoCoords
    /\ total_time = 0
    /\ current_t = 0
    /\ m_idx = 0
    /\ merge_status = "none"
    /\ merged_from = <<>>

IdleOutlier ==
    /\ cube = <<>>
    /\ out_disk = {}
    /\ created = {}
    /\ ol_pc = "idle"
    /\ n_outliers = 0
    /\ outlier_mean = <<>>
    /\ outlier_count = <<>>
    /\ file_result = "idle"

IdleAgg ==
    /\ a_stage = "idle"
    /\ a_vals = <<>>
    /\ a_days = <<>>
    /\ a_window = <<0, 0>>
    /\ a_meta = <<>>
    /\ a_disk = {}
    /\ a_written = {}
    /\ a_pc = "idle"
    /\ a_crs = ""
    /\ a_sel = <<>>
    /\ a_mean = <<>>
    /\ a_count = 0
    /\ a_result = "idle"

IdleMosaic ==
    /\ mz_kind = "idle"
    /\ tif_files = <<>>
    /\ output_file = "absent"
    /\ mz_pc = "idle"
    /\ mz_run = 0
    /\ opening = <<>>
    /\ src_files = <<>>
    /\ open_handles = {}
    /\ mz_outcome = <<>>

IdleTiles ==
    /\ hls_tiles = <<>>
    /\ filepaths = <<>>
    /\ filtered = <<>>
    /\ collected = <<>>
    /\ tl_pc = "idle"

IdleRange ==
    /\ vi_type = "idle"
    /\ valid_range_env = <<>>
    /\ range_result = <<>>
    /\ range_warned = FALSE
    /\ vr_pc = "idle"

IdleParse ==
    /\ windows_str = <<>>
    /\ parsed = <<>>
    /\ pw_pc = "idle"

IdleMerge ==
    /\ mg_tiles = <<>>
    /\ mg_paths = [mean |-> <<>>, count |-> <<>>]
    /\ mg_chan = "none"
    /\ mg_pc = "idle"
    /\ mg_k = 0
    /\ mg_dest = <<>>
    /\ mg_temp = <<>>
    /\ mg_held = 0
    /\ mg_from = [mean |-> <<>>, count |-> <<>>]
    /\ mg_out = [mean |-> <<>>, count |-> <<>>]

IdlePool ==
    /\ pl_stage = "none"
    /\ pl_found = <<>>
    /\ pl_items = <<>>
    /\ pl_state = <<>>
    /\ pl_collected = <<>>
    /\ pl_pc = "idle"

IdleGpkg ==
    /\ gp_cubes = <<>>
    /\ gp_time_chunk = 0
    /\ gp_bounds = <<>>
    /\ gp_pc = "idle"
    /\ gp_tile_idx = 0
    /\ gp_t_start = 0
    /\ gp_yielded = <<>>
    /\ gp_last = "none"
    /\ gp_n_tile_out = 0
    /\ gp_total = 0
    /\ gp_features = <<>>
    /\ gp_exists = FALSE

(***************************************************************************)
(* Integer bit operations of numpy on unsigned bytes.                      *)
(***************************************************************************)
RECURSIVE BitAnd(_, _)
BitAnd(a, b) ==
    IF a = 0 \/ b = 0 THEN 0
    ELSE (a % 2) * (b % 2) + 2 * BitAnd(a \div 2, b \div 2)

ShiftLeft(a, n) == a * (2 ^ n)

ShiftRight(a, n) == a \div (2 ^ n)

(***************************************************************************)
(* Step 02: quality masking of process_granule_static.                     *)
(***************************************************************************)
FmaskFill == 255

FmaskValues == 0 .. FmaskFill

MaskToggles == {"cirrus", "cloud", "adj", "shadow", "snow", "water"}

AerosolModes == {"LOW", "MODERATE", "HIGH", "NONE"}

\* if self.mask_x: mask |= ((fmask & (1 << bit)) > 0)
FlagTest(m, enabled, v, bit) ==
    IF enabled THEN m \/ (BitAnd(v, ShiftLeft(1, bit)) > 0) ELSE m

\* aerosol_level = (fmask >> 6) & 0b11
AerosolLevel(v) == BitAnd(ShiftRight(v, 6), 3)

AerosolTestHighAsModerate(m, mode, v) ==
    IF mode = "LOW" THEN m \/ (AerosolLevel(v) >= 1)
    ELSE IF mode = "MODERATE" THEN m \/ (AerosolLevel(v) >= 2)
    ELSE IF mode = "HIGH" THEN m \/ (AerosolLevel(v) >= 2)
    ELSE m

AerosolTest(m, mode, v) ==
    IF mode = "LOW" THEN m \/ (AerosolLevel(v) >= 1)
    ELSE IF mode = "MODERATE" THEN m \/ (AerosolLevel(v) >= 2)
    ELSE IF mode = "HIGH" THEN m \/ (AerosolLevel(v) = 3)
    ELSE m

\* The mask of one pixel, accumulated in the order of the source.
QualityMask(v, cfg, mode) ==
    LET m0 == FALSE
        m1 == FlagTest(m0, cfg.cirrus, v, 0)
        m2 == FlagTest(m1, cfg.cloud,  v, 1)
        m3 == FlagTest(m2, cfg.adj,    v, 2)
        m4 == FlagTest(m3, cfg.shadow, v, 3)
        m5 == FlagTest(m4, cfg.snow,   v, 4)
        m6 == FlagTest(m5, cfg.water,  v, 5)
        m7 == AerosolTest(m6, mode, v)
    IN  m7 \/ (v = FmaskFill)

InitMask ==
    /\ IdleStack
    /\ IdleCube
    /\ IdleOutlier
    /\ IdleAgg
    /\ IdleMosaic
    /\ IdleTiles
    /\ IdleRange
    /\ IdleParse
    /\ IdleMerge
    /\ IdlePool
    /\ IdleGpkg
    /\ fmask \in FmaskValues
    /\ mask_cfg \in [MaskToggles -> BOOLEAN]
    /\ aerosol_mode \in AerosolModes
    /\ outputs_exist \in BOOLEAN
    /\ red = "raw"
    /\ nir = "raw"
    /\ granule_result = "pending"

\* return f"Skipped (Exists): {basename}"
GranuleSkipExists ==
    /\ granule_result = "pending"
    /\ outputs_exist
    /\ granule_result' = "Skipped"
    /\ UNCHANGED <<fmask, mask_cfg, aerosol_mode, outputs_exist, red, nir>>
    /\ UNCHANGED othersMask

\* an exception while opening or reading the three rasters
GranuleError ==
    /\ granule_result = "pending"
    /\ ~outputs_exist
    /\ granule_result' = "Error"
    /\ UNCHANGED <<fmask, mask_cfg, aerosol_mode, outputs_exist, red, nir>>
    /\ UNCHANGED othersMask

\* red[mask] = np.nan ; nir[mask] = np.nan ; indices written
GranuleProcess ==
    /\ granule_result = "pending"
    /\ ~outputs_exist
    /\ LET mask == QualityMask(fmask, mask_cfg, aerosol_mode)
       IN  /\ red' = IF mask THEN "NaN" ELSE "scaled"
           /\ nir' = IF mask THEN "NaN" ELSE "scaled"
    /\ granule_result' = "Processed"
    /\ outputs_exist' = TRUE
    /\ UNCHANGED <<fmask, mask_cfg, aerosol_mode>>
    /\ UNCHANGED othersMask

NextMask == GranuleSkipExists \/ GranuleError \/ GranuleProcess

SpecMask == InitMask /\ [][NextMask]_vars

(***************************************************************************)
(* Claims about step 02.                                                   *)
(***************************************************************************)
BitSet(v, i) == (v \div (2 ^ i)) % 2 = 1

ToggleBit == [cirrus |-> 0, cloud |-> 1, adj |-> 2, shadow |-> 3, snow |-> 4, water |-> 5]

AerosolExcluded(v, mode) ==
    LET level == v \div 64
    IN  \/ mode = "LOW" /\ level \in {1, 2, 3}
        \/ mode = "MODERATE" /\ level \in {2, 3}
        \/ mode = "HIGH" /\ level = 3

ShouldExclude(v, cfg, mode) ==
    \/ \E t \in MaskToggles : cfg[t] /\ BitSet(v, ToggleBit[t])
    \/ AerosolExcluded(v, mode)
    \/ v = 255

\* C1: a processed pixel is excluded (red and nir NaN) exactly when an enabled
\* flag bit is set, or the aerosol level meets the mode's threshold, or the
\* value is 255; with no toggle and no aerosol mode only 255 is excluded.
C1_MaskIsOrOfEnabledTests ==
    granule_result = "Processed" =>
        /\ (red = "NaN") <=> ShouldExclude(fmask, mask_cfg, aerosol_mode)
        /\ (nir = "NaN") <=> ShouldExclude(fmask, mask_cfg, aerosol_mode)
        /\ red \in {"NaN", "scaled"} /\ nir \in {"NaN", "scaled"}
        /\ ((\A t \in MaskToggles : ~mask_cfg[t]) /\ aerosol_mode = "NONE")
               => ((red = "NaN") <=> (fmask = 255))

\* a processed pixel excluded by the aerosol rule alone (HIGH, level 3, no toggle)
C1_Witness ==
    /\ granule_result = "Processed"
    /\ aerosol_mode = "HIGH"
    /\ fmask = 192
    /\ \A t \in MaskToggles : ~mask_cfg[t]
    /\ red = "NaN" /\ nir = "NaN"

(***************************************************************************)
(* Step 10: build_timeseries_stacks and _append_band_to_stack, for one     *)
(* index.  A stack file is a sequence of bands; a band has pixel data, a   *)
(* description and a 'label' tag.                                          *)
(***************************************************************************)
MaxWindows == 2

WindowLabels == <<"w1", "w2", "w3", "w4">>

Tiles == {"T1", "T2"}

Channels == {"mean", "count"}

TileOutcomes == {"ok", "skip", "error"}

StackPath(c) == IF c = "mean" THEN "mean_stack" ELSE "count_stack"

TmpPathInPlace(stack_path) == stack_path

\* tmp_path = stack_path + '.tmp'
TmpPath(stack_path) ==
    IF stack_path = "mean_stack" THEN "mean_stack.tmp" ELSE "count_stack.tmp"

Paths == {"mean_stack", "count_stack", "mean_stack.tmp", "count_stack.tmp"}

NoPixels == [chan |-> "none", label |-> "", tiles |-> <<>>]

EmptyBand == [data |-> NoPixels, desc |-> "", tag |-> ""]

Absent == [exists |-> FALSE, bands |-> <<>>]

\* what an earlier run may have left at a path
StaleFile ==
    [exists |-> TRUE,
     bands  |-> <<[data |-> [chan |-> "stale", label |-> "", tiles |-> <<>>],
                   desc |-> "stale", tag |-> "stale"]>>]

\* as_completed: the tiles in every order of completion
TileOrders ==
    {s \in [1 .. Cardinality(Tiles) -> Tiles] :
        \A i, j \in 1 .. Cardinality(Tiles) : s[i] = s[j] => i = j}

OkTiles(order, res) == SelectSeq(order, LAMBDA t : res[t] = "ok")

\* _mosaic_temp_tiles: the merged array of the tile rasters, in list order
MosaicTempTiles(tile_paths, c, label) ==
    [chan |-> c, label |-> label, tiles |-> tile_paths]

NewBandIndexOverwritesLast(n) == n

\* new_band = existing_count + 1
NewBandIndex(n) == n + 1

NoCall == [chan |-> "none", outcome |-> "none", on_existing |-> FALSE, pre |-> Absent]

InitStack ==
    /\ IdleMask
    /\ IdleCube
    /\ IdleOutlier
    /\ IdleAgg
    /\ IdleMosaic
    /\ IdleTiles
    /\ IdleRange
    /\ IdleParse
    /\ IdleMerge
    /\ IdlePool
    /\ IdleGpkg
    /\ windows \in {SubSeq(WindowLabels, 1, n) : n \in 1 .. MaxWindows}
    /\ disk \in [Paths -> {Absent, StaleFile}]
    /\ pc = "start"
    /\ w_idx = 0
    /\ mean_tile_paths = <<>>
    /\ count_tile_paths = <<>>
    /\ n_skipped = 0
    /\ n_errors = 0
    /\ chan = "none"
    /\ apc = "idle"
    /\ b_idx = 0
    /\ band_data = NoPixels
    /\ band_num = [c \in Channels |-> 0]
    /\ existing_count = 0
    /\ existing_descs = <<>>
    /\ create_failed = [c \in Channels |-> FALSE]
    /\ last_call = NoCall
    /\ calls = [c \in Channels |-> <<>>]

appendLocals == <<chan, apc, b_idx, band_data, existing_count, existing_descs>>

history == <<create_failed, last_call, calls>>

\* the end of one iteration of "for w_idx, window in enumerate(windows, 1)":
\* the temporary directory and the per-window lists are gone
AdvanceWindow ==
    /\ w_idx' = w_idx + 1
    /\ pc' = IF w_idx + 1 > Len(windows) THEN "done" ELSE "workers"
    /\ mean_tile_paths' = <<>>
    /\ count_tile_paths' = <<>>
    /\ n_skipped' = 0
    /\ n_errors' = 0

\* "Remove any stale partial stacks so we always build fresh"
RemoveStaleStacks ==
    /\ pc = "start"
    /\ disk' = [disk EXCEPT !["mean_stack"] = Absent, !["count_stack"] = Absent]
    /\ pc' = "workers"
    /\ w_idx' = 1
    /\ UNCHANGED <<windows, mean_tile_paths, count_tile_paths, n_skipped, n_errors,
                   band_num, appendLocals, history>>
    /\ UNCHANGED othersStack

\* the pool of _process_tile_window: no tile returned 'ok', the band is skipped
WorkersNoTiles ==
    /\ pc = "workers"
    /\ \E res \in [Tiles -> TileOutcomes] :
          /\ \A t \in Tiles : res[t] # "ok"
          /\ AdvanceWindow
    /\ UNCHANGED <<windows, disk, band_num, appendLocals, history>>
    /\ UNCHANGED othersStack

\* the pool of _process_tile_window: the 'ok' results in completion order
WorkersSomeTiles ==
    /\ pc = "workers"
    /\ \E res \in [Tiles -> TileOutcomes], order \in TileOrders :
          /\ OkTiles(order, res) # <<>>
          /\ mean_tile_paths' = OkTiles(order, res)
          /\ count_tile_paths' = OkTiles(order, res)
          /\ n_skipped' = Cardinality({t \in Tiles : res[t] = "skip"})
          /\ n_errors' = Cardinality({t \in Tiles : res[t] = "error"})
    /\ pc' = "mean_mosaic"
    /\ UNCHANGED <<windows, disk, w_idx, band_num, appendLocals, history>>
    /\ UNCHANGED othersStack

MosaicOk(c) ==
    /\ chan' = c
    /\ apc' = "enter"
    /\ pc' = "append"
    /\ UNCHANGED <<windows, disk, w_idx, mean_tile_paths, count_tile_paths, n_skipped,
                   n_errors, b_idx, band_num, existing_count, existing_descs, history>>
    /\ UNCHANGED othersStack

MosaicMeanOk ==
    /\ pc = "mean_mosaic"
    /\ band_data' = MosaicTempTiles(mean_tile_paths, "mean", windows[w_idx])
    /\ MosaicOk("mean")

MosaicCountOk ==
    /\ pc = "count_mosaic"
    /\ band_data' = MosaicTempTiles(count_tile_paths, "count", windows[w_idx])
    /\ MosaicOk("count")

\* "Mean mosaic failed": except ... continue
MosaicMeanFail ==
    /\ pc = "mean_mosaic"
    /\ AdvanceWindow
    /\ UNCHANGED <<windows, disk, band_num, appendLocals, history>>
    /\ UNCHANGED othersStack

\* "Count mosaic failed": the iteration ends
MosaicCountFail ==
    /\ pc = "count_mosaic"
    /\ AdvanceWindow
    /\ UNCHANGED <<windows, disk, band_num, appendLocals, history>>
    /\ UNCHANGED othersStack

\* the caller after a band was written: the count channel follows the mean
AfterAppendOk ==
    /\ apc' = "idle"
    /\ IF chan = "mean"
       THEN /\ pc' = "count_mosaic"
            /\ UNCHANGED <<w_idx, mean_tile_paths, count_tile_paths, n_skipped, n_errors>>
       ELSE AdvanceWindow

\* the caller's except branch: 'continue' for the mean, fall through for the count
AfterAppendRaise ==
    /\ apc' = "idle"
    /\ AdvanceWindow

\* if not os.path.exists(stack_path): write a one-band file, return 1
AppendCreate ==
    /\ pc = "append" /\ apc = "enter"
    /\ ~disk[StackPath(chan)].exists
    /\ disk' = [disk EXCEPT ![StackPath(chan)] =
                    [exists |-> TRUE,
                     bands  |-> <<[data |-> band_data, desc |-> windows[w_idx],
                                   tag |-> windows[w_idx]]>>]]
    /\ band_num' = [band_num EXCEPT ![chan] = 1]
    /\ calls' = [calls EXCEPT ![chan] =
                    Append(@, [label |-> windows[w_idx], data |-> band_data, ret |-> 1])]
    /\ last_call' = [chan |-> chan, outcome |-> "returned", on_existing |-> FALSE,
                     pre |-> Absent]
    /\ AfterAppendOk
    /\ UNCHANGED <<windows, chan, b_idx, band_data, existing_count, existing_descs,
                   create_failed>>
    /\ UNCHANGED othersStack

\* what a first write that did not complete leaves at stack_path
PartialCreates(data) ==
    {Absent,
     [exists |-> TRUE, bands |-> <<EmptyBand>>],
     [exists |-> TRUE, bands |-> <<[data |-> data, desc |-> "", tag |-> ""]>>]}

\* the first write raises: nothing removes the file written so far
AppendCreateFail ==
    /\ pc = "append" /\ apc = "enter"
    /\ ~disk[StackPath(chan)].exists
    /\ \E partial \in PartialCreates(band_data) :
          /\ disk' = [disk EXCEPT ![StackPath(chan)] = partial]
          /\ create_failed' = [create_failed EXCEPT ![chan] = @ \/ partial.exists]
    /\ last_call' = [chan |-> chan, outcome |-> "raised", on_existing |-> FALSE,
                     pre |-> Absent]
    /\ AfterAppendRaise
    /\ UNCHANGED <<windows, chan, b_idx, band_data, band_num, existing_count,
                   existing_descs, calls>>
    /\ UNCHANGED othersStack

\* rasterio.open(stack_path, 'r') ; rasterio.open(tmp_path, 'w', count + 1)
AppendOpen ==
    /\ pc = "append" /\ apc = "enter"
    /\ disk[StackPath(chan)].exists
    /\ LET src == disk[StackPath(chan)]
       IN  /\ existing_count' = Len(src.bands)
           /\ existing_descs' = [i \in 1 .. Len(src.bands) |-> src.bands[i].desc]
           /\ disk' = [disk EXCEPT ![TmpPath(StackPath(chan))] =
                          [exists |-> TRUE,
                           bands  |-> [i \in 1 .. Len(src.bands) + 1 |-> EmptyBand]]]
           /\ last_call' = [chan |-> chan, outcome |-> "running", on_existing |-> TRUE,
                            pre |-> src]
    /\ b_idx' = 1
    /\ apc' = "copy"
    /\ UNCHANGED <<windows, pc, w_idx, mean_tile_paths, count_tile_paths, n_skipped,
                   n_errors, chan, band_data, band_num, create_failed, calls>>
    /\ UNCHANGED othersStack

\* for b_idx in range(1, existing_count + 1): stream the band, set its description
AppendCopyBand ==
    /\ pc = "append" /\ apc = "copy"
    /\ b_idx <= existing_count
    /\ LET src == disk[StackPath(chan)]
           tmp == TmpPath(StackPath(chan))
       IN  disk' = [disk EXCEPT ![tmp].bands[b_idx] =
                        [data |-> src.bands[b_idx].data,
                         desc |-> existing_descs[b_idx],
                         tag  |-> ""]]
    /\ b_idx' = b_idx + 1
    /\ UNCHANGED <<windows, pc, w_idx, mean_tile_paths, count_tile_paths, n_skipped,
                   n_errors, chan, apc, band_data, band_num, existing_count,
                   existing_descs, history>>
    /\ UNCHANGED othersStack

\* dst.write(band_data, new_band) ; update_tags ; set_band_description
AppendWriteNew ==
    /\ pc = "append" /\ apc = "copy"
    /\ b_idx > existing_count
    /\ disk' = [disk EXCEPT ![TmpPath(StackPath(chan))].bands[NewBandIndex(existing_count)] =
                    [data |-> band_data, desc |-> windows[w_idx], tag |-> windows[w_idx]]]
    /\ apc' = "written"
    /\ UNCHANGED <<windows, pc, w_idx, mean_tile_paths, count_tile_paths, n_skipped,
                   n_errors, chan, b_idx, band_data, band_num, existing_count,
                   existing_descs, history>>
    /\ UNCHANGED othersStack

\* os.replace(tmp_path, stack_path) ; return existing_count + 1
AppendReplace ==
    /\ pc = "append" /\ apc = "written"
    /\ LET sp  == StackPath(chan)
           tmp == TmpPath(StackPath(chan))
       IN  disk' = [p \in Paths |->
                       IF p = sp THEN disk[tmp]
                       ELSE IF p = tmp THEN Absent
                       ELSE disk[p]]
    /\ band_num' = [band_num EXCEPT ![chan] = existing_count + 1]
    /\ calls' = [calls EXCEPT ![chan] =
                    Append(@, [label |-> windows[w_idx], data |-> band_data,
                               ret |-> existing_count + 1])]
    /\ last_call' = [last_call EXCEPT !.outcome = "returned"]
    /\ AfterAppendOk
    /\ UNCHANGED <<windows, chan, b_idx, band_data, existing_count, existing_descs,
                   create_failed>>
    /\ UNCHANGED othersStack

\* except Exception: remove tmp_path if it exists, raise
AppendFail ==
    /\ pc = "append"
    /\ \/ apc = "enter" /\ disk[StackPath(chan)].exists
       \/ apc \in {"copy", "written"}
    /\ disk' = [disk EXCEPT ![TmpPath(StackPath(chan))] = Absent]
    /\ last_call' = [chan |-> chan, outcome |-> "raised", on_existing |-> TRUE,
                     pre |-> IF apc = "enter" THEN disk[StackPath(chan)]
                                              ELSE last_call.pre]
    /\ AfterAppendRaise
    /\ UNCHANGED <<windows, chan, b_idx, band_data, band_num, existing_count,
                   existing_descs, create_failed, calls>>
    /\ UNCHANGED othersStack

\* the process is killed: no handler runs, the files stay as they are
Kill ==
    /\ pc \in {"workers", "mean_mosaic", "count_mosaic", "append"}
    /\ pc' = "killed"
    /\ UNCHANGED <<windows, disk, w_idx, mean_tile_paths, count_tile_paths, n_skipped,
                   n_errors, band_num, appendLocals, history>>
    /\ UNCHANGED othersStack

NextStack ==
    \/ RemoveStaleStacks
    \/ WorkersNoTiles
    \/ WorkersSomeTiles
    \/ MosaicMeanOk
    \/ MosaicMeanFail
    \/ MosaicCountOk
    \/ MosaicCountFail
    \/ AppendCreate
    \/ AppendCreateFail
    \/ AppendOpen
    \/ AppendCopyBand
    \/ AppendWriteNew
    \/ AppendReplace
    \/ AppendFail
    \/ Kill

SpecStack == InitStack /\ [][NextStack]_vars

(***************************************************************************)
(* Claims about step 10.                                                   *)
(***************************************************************************)
\* C2: while an append on an existing stack is running, and after it raised or
\* the process was killed before os.replace, the file at stack_path is what
\* the call found there.
C2_AppendIsAtomic ==
    (last_call.on_existing /\ last_call.outcome \in {"running", "raised"})
        => disk[StackPath(last_call.chan)] = last_call.pre

\* killed after the new band was written to the .tmp, before the rename
C2_Witness ==
    /\ pc = "killed"
    /\ apc = "written"
    /\ last_call.on_existing /\ last_call.outcome = "running"
    /\ disk[TmpPath(StackPath(chan))].exists
    /\ Len(disk[TmpPath(StackPath(chan))].bands) = Len(last_call.pre.bands) + 1

\* C3: on a stack that did not exist and whose first write was not cut short,
\* after k successful appends the stack has k bands, band j has the label and
\* the pixels of the j-th successful call, and that call returned j.
C3_StackIsTheSuccessfulAppends ==
    \A c \in Channels :
        (pc \notin {"idle", "start"} /\ ~create_failed[c]) =>
            /\ disk[StackPath(c)].exists <=> (calls[c] # <<>>)
            /\ Len(disk[StackPath(c)].bands) = Len(calls[c])
            /\ \A j \in 1 .. Len(calls[c]) :
                  /\ disk[StackPath(c)].bands[j].desc = calls[c][j].label
                  /\ disk[StackPath(c)].bands[j].data = calls[c][j].data
                  /\ calls[c][j].ret = j
            /\ band_num[c] = Len(calls[c])

\* two appends succeeded on the mean stack: the second streamed the first band
C3_Witness ==
    /\ Len(calls["mean"]) = 2
    /\ ~create_failed["mean"]
    /\ Len(disk["mean_stack"].bands) = 2
    /\ disk["mean_stack"].bands[1].desc = "w1"
    /\ disk["mean_stack"].bands[2].desc = "w2"

BandLabels(c) ==
    [j \in 1 .. Len(disk[StackPath(c)].bands) |-> disk[StackPath(c)].bands[j].desc]

\* C4: between window iterations and at the end, the mean and the count stack
\* have the same number of bands and the same sequence of band labels.
C4_StacksMatch ==
    pc \in {"workers", "done"} => BandLabels("mean") = BandLabels("count")

\* C5: at the end each produced stack has one band per configured window,
\* band k labelled with the k-th window's label.
C5_OneBandPerWindow ==
    pc = "done" =>
        \A c \in Channels :
            disk[StackPath(c)].exists => BandLabels(c) = windows

\* C15: a stage that is run again over outputs that exist skips them: an
\* output artifact found at the start of a run is not deleted, rewritten or
\* recomputed by the run.
C15_ExistingOutputsKept ==
    [][pc = "start" =>
          \A c \in Channels :
              disk[StackPath(c)].exists => disk'[StackPath(c)] = disk[StackPath(c)]]_vars

(***************************************************************************)
(* float32 cells.  Finite values are small integers; the special values    *)
(* are codes ordered the way IEEE-754 orders them, and NaN compares false. *)
(***************************************************************************)
NaN == 999

PosInf == 100

NegInf == -100

\* netCDF4's default fill of an 'f4' variable that declares none (9.97e36)
DefaultFillValue == 60

\* a masked cell of the masked array netCDF4 returns
Masked == 998

(***************************************************************************)
(* Step 03: HLSNetCDFAggregator.run and merge_chunks for one (tile, index).*)
(***************************************************************************)
MaxFiles == 3

FileKinds == {"val", "nan", "unreadable", "badshape"}

\* the sensor of the i-th product
SensorOf(i) == IF i % 2 = 1 THEN "L30" ELSE "S30"

\* the pixel a granule raster holds: a value, or NaN where step 02 masked it
PixelOf(kind) == IF kind \in {"val", "badshape"} THEN 1 ELSE NaN

\* src.transform, src.width, src.height, src.crs of a granule raster; a raster
\* of kind "badshape" has another extent than the others
TransformOf(kind) ==
    [c |-> 10, a |-> 3, f |-> 20, e |-> -3, crs |-> "utm",
     width |-> IF kind = "badshape" THEN 3 ELSE 2, height |-> 2]

\* corner + pixel_size * (np.arange(n) + 0.5), in halves of a coordinate unit
PixelCenters(corner, pixel_size, n) ==
    [i \in 1 .. n |-> 2 * corner + pixel_size * (2 * (i - 1) + 1)]

\* x_coords, y_coords and crs_wkt of a raster with transform t
CoordsOf(t) ==
    [x   |-> PixelCenters(t.c, t.a, t.width),
     y   |-> PixelCenters(t.f, t.e, t.height),
     crs |-> t.crs]

\* the coordinates in a chunk file of an earlier run
StaleGrid(stale) ==
    CASE stale = "g_shift" ->
             CoordsOf([TransformOf("val") EXCEPT !.c = @ + 3])
      [] stale = "g_big" -> CoordsOf(TransformOf("badshape"))
      [] OTHER -> CoordsOf(TransformOf("val"))

RECURSIVE SortByDate(_)
\* file_org[t][v].sort(key=lambda x: x['date']): stable, ascending by date
SortByDate(fs) ==
    IF fs = <<>> THEN <<>>
    ELSE LET rest == SortByDate(SubSeq(fs, 1, Len(fs) - 1))
             f    == fs[Len(fs)]
             k    == Cardinality({i \in 1 .. Len(rest) : rest[i].date <= f.date})
         IN  SubSeq(rest, 1, k) \o <<f>> \o SubSeq(rest, k + 1, Len(rest))

NcPaths == 0 .. MaxFiles

AbsentNc ==
    [exists |-> FALSE, complete |-> FALSE, grid |-> NoCoords, fill |-> NaN,
     time |-> <<>>, sensor |-> <<>>, plane |-> <<>>]

\* a chunk file an earlier run left behind
StaleChunk(grid) ==
    [exists |-> TRUE, complete |-> TRUE, grid |-> grid, fill |-> NaN,
     time |-> <<0>>, sensor |-> <<"L30">>, plane |-> <<1>>]

\* a file whose writer raised after creating it
PartialNc ==
    [exists |-> TRUE, complete |-> FALSE, grid |-> NoCoords, fill |-> NaN,
     time |-> <<>>, sensor |-> <<>>, plane |-> <<>>]

\* height, width = len(y_coords), len(x_coords)
ShapeOf(grid) == <<Len(grid.y), Len(grid.x)>>

\* data.shape of the raster of a product
DataShape(kind) == <<TransformOf(kind).height, TransformOf(kind).width>>

Min(a, b) == IF a < b THEN a ELSE b

\* total_chunks = (len(files) + chunk_size - 1) // chunk_size
TotalChunks(n, size) == (n + size - 1) \div size

\* files[start_idx : start_idx + chunk_size] of the i-th chunk (i from 1)
ChunkSlice(fs, i, size) ==
    SubSeq(fs, (i - 1) * size + 1, Min(i * size, Len(fs)))

\* process_netcdf_chunk without the shape check
ChunkFileKeepsBadShape(fs, grid) ==
    [exists   |-> TRUE,
     complete |-> TRUE,
     grid     |-> grid,
     fill     |-> NaN,
     time     |-> [i \in 1 .. Len(fs) |-> fs[i].date],
     sensor   |-> [i \in 1 .. Len(fs) |->
                      IF fs[i].kind = "unreadable" THEN "" ELSE fs[i].sensor],
     plane    |-> [i \in 1 .. Len(fs) |->
                      IF fs[i].kind = "unreadable" THEN NaN ELSE PixelOf(fs[i].kind)]]

\* process_netcdf_chunk: the file it writes for a list of products
ChunkFile(fs, grid) ==
    [exists   |-> TRUE,
     complete |-> TRUE,
     grid     |-> grid,
     fill     |-> NaN,
     time     |-> [i \in 1 .. Len(fs) |-> fs[i].date],
     sensor   |-> [i \in 1 .. Len(fs) |->
                      IF fs[i].kind = "unreadable" THEN "" ELSE fs[i].sensor],
     plane    |-> [i \in 1 .. Len(fs) |->
                      IF \/ fs[i].kind = "unreadable"
                         \/ DataShape(fs[i].kind) # ShapeOf(grid)
                      THEN NaN ELSE PixelOf(fs[i].kind)]]

\* the output path of chunk chunk_id: the cube itself when there is one chunk
ChunkPath(chunk_id, total) == IF total = 1 THEN 0 ELSE chunk_id

\* src.variables[vi_type][:]: cells equal to the variable's fill come back masked
ReadPlanes(f) ==
    [i \in 1 .. Len(f.plane) |->
        IF f.plane[i] = f.fill THEN Masked ELSE f.plane[i]]

\* vi_var[a:b, :, :] = array: masked cells are stored as the variable's fill
StorePlanes(arr, fill) ==
    [i \in 1 .. Len(arr) |-> IF arr[i] = Masked THEN fill ELSE arr[i]]

CleanupOnlyOnSuccess(chunk_files, status) ==
    IF status = "ok" THEN chunk_files ELSE {}

\* finally: for cf in chunk_files: os.remove(cf)
CleanupTargets(chunk_files, status) == chunk_files

ExpectedChunks == 1 .. total_chunks

InitCube ==
    /\ IdleMask
    /\ IdleStack
    /\ IdleOutlier
    /\ IdleAgg
    /\ IdleMosaic
    /\ IdleTiles
    /\ IdleRange
    /\ IdleParse
    /\ IdleMerge
    /\ IdlePool
    /\ IdleGpkg
    /\ \E n \in 1 .. MaxFiles :
          \E k \in [1 .. n -> FileKinds], found \in Permutations(1 .. n) :
              files = [j \in 1 .. n |->
                          [date |-> found[j], sensor |-> SensorOf(found[j]),
                           kind |-> k[found[j]]]]
    /\ chunk_size \in 1 .. MaxFiles
    /\ \E stale \in {"none", "g", "g_shift", "g_big"} :
          nc_disk = [p \in NcPaths |->
                        IF stale = "none" \/ p = 0 THEN AbsentNc
                        ELSE StaleChunk(StaleGrid(stale))]
    /\ run_pc = "collect"
    /\ coords = NoCoords
    /\ total_chunks = 0
    /\ results = <<>>
    /\ m_coords = NoCoords
    /\ total_time = 0
    /\ current_t = 0
    /\ m_idx = 0
    /\ merge_status = "none"
    /\ merged_from = <<>>

mergeLocals == <<m_coords, total_time, current_t, m_idx, merge_status, merged_from>>

\* collect_files: the products of one (tile, index) as glob found them, sorted
RunCollectFiles ==
    /\ run_pc = "collect"
    /\ files' = SortByDate(files)
    /\ run_pc' = "start"
    /\ UNCHANGED <<chunk_size, nc_disk, coords, total_chunks, results, mergeLocals>>
    /\ UNCHANGED othersCube

\* rasterio.open(files[0]) raises: "Error preparing tile"
RunFirstFileFails ==
    /\ run_pc = "start"
    /\ run_pc' = "done"
    /\ UNCHANGED <<files, chunk_size, nc_disk, coords, total_chunks, results, mergeLocals>>
    /\ UNCHANGED othersCube

\* the coordinates of the first file, the chunks, and pool.map over them
RunChunkWorkers ==
    /\ run_pc = "start"
    /\ files[1].kind # "unreadable"
    /\ coords' = CoordsOf(TransformOf(files[1].kind))
    /\ total_chunks' = TotalChunks(Len(files), chunk_size)
    /\ \E res \in [1 .. TotalChunks(Len(files), chunk_size) ->
                      {"ok", "open_failed", "write_failed"}] :
          /\ results' = res
          /\ nc_disk' = [p \in NcPaths |->
                LET total == TotalChunks(Len(files), chunk_size)
                    ids   == {i \in 1 .. total : ChunkPath(i, total) = p}
                IN  IF ids = {} THEN nc_disk[p]
                    ELSE LET i == CHOOSE i \in ids : TRUE
                         IN  CASE res[i] = "ok" ->
                                    ChunkFile(ChunkSlice(files, i, chunk_size),
                                              CoordsOf(TransformOf(files[1].kind)))
                               [] res[i] = "write_failed" -> PartialNc
                               [] OTHER -> nc_disk[p]]
    /\ run_pc' = IF TotalChunks(Len(files), chunk_size) > 1 THEN "m_first" ELSE "done"
    /\ merge_status' = IF TotalChunks(Len(files), chunk_size) > 1 THEN "running" ELSE "none"
    /\ UNCHANGED <<files, chunk_size, m_coords, total_time, current_t, m_idx, merged_from>>
    /\ UNCHANGED othersCube

\* an open chunk can be read when it exists and was written to the end
Readable(p) == nc_disk[p].exists /\ nc_disk[p].complete

\* with nc4.Dataset(chunk_files[0], 'r'): y, x, crs of the first chunk
MergeReadFirst ==
    /\ run_pc = "m_first"
    /\ Readable(1)
    /\ m_coords' = nc_disk[1].grid
    /\ run_pc' = "m_sum"
    /\ UNCHANGED <<files, chunk_size, nc_disk, coords, total_chunks, results,
                   total_time, current_t, m_idx, merge_status, merged_from>>
    /\ UNCHANGED othersCube

RECURSIVE SumTime(_)
SumTime(ps) ==
    IF ps = {} THEN 0
    ELSE LET p == CHOOSE q \in ps : TRUE
         IN  Len(nc_disk[p].time) + SumTime(ps \ {p})

\* for cf in chunk_files: total_time += len(src.dimensions['time'])
MergeSumTime ==
    /\ run_pc = "m_sum"
    /\ \A p \in ExpectedChunks : Readable(p)
    /\ total_time' = SumTime(ExpectedChunks)
    /\ run_pc' = "m_create"
    /\ UNCHANGED <<files, chunk_size, nc_disk, coords, total_chunks, results,
                   m_coords, current_t, m_idx, merge_status, merged_from>>
    /\ UNCHANGED othersCube

\* nc4.Dataset(merged_file, 'w'): dimensions and variables, no data yet;
\* the index variable is created without fill_value
MergeCreate ==
    /\ run_pc = "m_create"
    /\ nc_disk' = [nc_disk EXCEPT ![0] =
                      [exists |-> TRUE, complete |-> FALSE, grid |-> m_coords,
                       fill |-> DefaultFillValue,
                       time |-> <<>>, sensor |-> <<>>, plane |-> <<>>]]
    /\ current_t' = 0
    /\ m_idx' = 1
    /\ run_pc' = "m_copy"
    /\ UNCHANGED <<files, chunk_size, coords, total_chunks, results, m_coords,
                   total_time, merge_status, merged_from>>
    /\ UNCHANGED othersCube

\* for cf in chunk_files: copy time, planes and sensor at current_t
MergeCopyChunk ==
    /\ run_pc = "m_copy"
    /\ m_idx <= total_chunks
    /\ Readable(m_idx)
    /\ ShapeOf(nc_disk[m_idx].grid) = ShapeOf(m_coords)
    /\ current_t + Len(nc_disk[m_idx].time) <= total_time
    /\ LET src == nc_disk[m_idx]
       IN  /\ nc_disk' = [nc_disk EXCEPT
                  ![0].time   = @ \o src.time,
                  ![0].plane  = @ \o StorePlanes(ReadPlanes(src), nc_disk[0].fill),
                  ![0].sensor = @ \o src.sensor]
           /\ current_t' = current_t + Len(src.time)
           /\ merged_from' = Append(merged_from, src.grid)
    /\ m_idx' = m_idx + 1
    /\ UNCHANGED <<files, chunk_size, run_pc, coords, total_chunks, results, m_coords,
                   total_time, merge_status>>
    /\ UNCHANGED othersCube

\* dst.title, dst.crs, the file is closed: "Merged file created"
MergeFinish ==
    /\ run_pc = "m_copy"
    /\ m_idx > total_chunks
    /\ nc_disk' = [nc_disk EXCEPT ![0].complete = TRUE]
    /\ merge_status' = "ok"
    /\ run_pc' = "m_cleanup"
    /\ UNCHANGED <<files, chunk_size, coords, total_chunks, results, m_coords,
                   total_time, current_t, m_idx, merged_from>>
    /\ UNCHANGED othersCube

\* except Exception as e: print "Merge failed" (at whichever step raised)
MergeFails ==
    /\ run_pc \in {"m_first", "m_sum", "m_create", "m_copy"}
    /\ merge_status' = "failed"
    /\ run_pc' = "m_cleanup"
    /\ UNCHANGED <<files, chunk_size, nc_disk, coords, total_chunks, results, m_coords,
                   total_time, current_t, m_idx, merged_from>>
    /\ UNCHANGED othersCube

\* finally: remove the chunk files; merge_chunks returns
MergeCleanup ==
    /\ run_pc = "m_cleanup"
    /\ nc_disk' = [p \in NcPaths |->
                      IF p \in CleanupTargets(ExpectedChunks, merge_status)
                      THEN AbsentNc ELSE nc_disk[p]]
    /\ run_pc' = "done"
    /\ UNCHANGED <<files, chunk_size, coords, total_chunks, results, mergeLocals>>
    /\ UNCHANGED othersCube

NextCube ==
    \/ RunCollectFiles
    \/ RunFirstFileFails
    \/ RunChunkWorkers
    \/ MergeReadFirst
    \/ MergeSumTime
    \/ MergeCreate
    \/ MergeCopyChunk
    \/ MergeFinish
    \/ MergeFails
    \/ MergeCleanup

SpecCube == InitCube /\ [][NextCube]_vars

(***************************************************************************)
(* Claims about step 03.                                                   *)
(***************************************************************************)
MergeReturned == run_pc = "done" /\ merge_status \in {"ok", "failed"}

\* C6: when merge_chunks has returned, whether the merge succeeded or failed at
\* any step, none of the chunk files it was given is on disk.
C6_ChunksAlwaysDeleted ==
    MergeReturned => \A p \in ExpectedChunks : ~nc_disk[p].exists

\* a merge that failed while chunk files existed, and they are gone
C6_Witness ==
    /\ MergeReturned
    /\ merge_status = "failed"
    /\ total_chunks >= 2
    /\ \E i \in ExpectedChunks : results[i] = "ok"
    /\ \A p \in ExpectedChunks : ~nc_disk[p].exists

AllWorkersOk == \A i \in 1 .. total_chunks : results[i] = "ok"

\* C7: the cube of a chunked build and merge has the time values, sensor labels
\* and planes of the cube built from the same sorted list in one chunk, in the
\* same order, and as many time steps as input files.
C7_ChunkedEqualsUnchunked ==
    (run_pc = "done" /\ merge_status = "ok" /\ AllWorkersOk) =>
        /\ nc_disk[0].time = ChunkFile(files, coords).time
        /\ nc_disk[0].sensor = ChunkFile(files, coords).sensor
        /\ nc_disk[0].plane = ChunkFile(files, coords).plane
        /\ Len(nc_disk[0].time) = Len(files)

\* C8: a merged cube is produced only from chunks that all have the x, y and
\* CRS of the first chunk.
C8_MergeVerifiesGrid ==
    (run_pc = "done" /\ merge_status = "ok") =>
        \A i \in 1 .. Len(merged_from) : merged_from[i] = m_coords

\* C17: when the merge of the chunks has failed and merge_chunks has returned,
\* no partially written merged cube is left in the output directory.
C17_NoPartialMergedCube ==
    (run_pc = "done" /\ merge_status = "failed") =>
        (nc_disk[0].exists => nc_disk[0].complete)

Ascending(t) == \A i, j \in 1 .. Len(t) : i < j => t[i] <= t[j]

\* C22: the time axis of a cube on disk is in ascending date order, whatever
\* the order in which the products were found and the chunks were written.
C22_TimeAxisAscending ==
    (run_pc = "done" /\ nc_disk[0].exists /\ nc_disk[0].complete) =>
        Ascending(nc_disk[0].time)

\* pool.map has returned: the chunk files of this run are on disk
WorkersReturned ==
    \/ run_pc = "m_first"
    \/ run_pc = "done" /\ total_chunks = 1

\* a time step whose raster cannot be read or has another shape than declared
StepFails(f) == f.kind = "unreadable" \/ DataShape(f.kind) # ShapeOf(coords)

\* C23: a chunk that was written has one time step per input file; the plane
\* of a step whose raster could not be read or has another shape than the
\* declared one is NaN, and every other step holds the data of its raster.
C23_FailedStepIsNaNPlane ==
    WorkersReturned =>
        \A i \in 1 .. total_chunks :
            results[i] = "ok" =>
                LET f == nc_disk[ChunkPath(i, total_chunks)]
                    s == ChunkSlice(files, i, chunk_size)
                IN  /\ Len(f.time) = Len(s)
                    /\ Len(f.plane) = Len(s)
                    /\ \A j \in 1 .. Len(s) :
                          f.plane[j] = IF StepFails(s[j]) THEN NaN ELSE PixelOf(s[j].kind)

\* a chunk whose first step cannot be read, whose second has another shape,
\* and whose third holds data all the same
C23_Witness ==
    /\ WorkersReturned
    /\ \E i \in 1 .. total_chunks :
          /\ results[i] = "ok"
          /\ LET f == nc_disk[ChunkPath(i, total_chunks)]
                 s == ChunkSlice(files, i, chunk_size)
             IN  /\ Len(s) = 3
                 /\ s[1].kind = "val"
                 /\ s[2].kind = "unreadable"
                 /\ s[3].kind = "val"
                 /\ f.plane = <<1, NaN, 1>>
                 /\ Len(f.time) = 3

\* the coordinates of pixel centers of the first product, in halves of a unit
CenterCoords ==
    LET t == TransformOf(files[1].kind)
    IN  [x   |-> [i \in 1 .. t.width |-> 2 * t.c + t.a * (2 * i - 1)],
         y   |-> [j \in 1 .. t.height |-> 2 * t.f + t.e * (2 * j - 1)],
         crs |-> t.crs]

\* C24: the merged cube and every chunk it was merged from carry the pixel
\* center coordinates and the CRS of the first product in date order.
C24_PixelCenterCoords ==
    /\ (WorkersReturned /\ total_chunks = 1 /\ results[1] = "ok") =>
            nc_disk[0].grid = CenterCoords
    /\ (run_pc = "done" /\ merge_status = "ok") =>
            /\ nc_disk[0].grid = CenterCoords
            /\ \A i \in 1 .. Len(merged_from) : merged_from[i] = CenterCoords

(***************************************************************************)
(* Step 05: process_file, outlier mean and count of one cube.              *)
(***************************************************************************)
MaxSteps == 2

Pixels == {"p1", "p2"}

\* da < 1e30: the bound that removes NetCDF fill values
FillThreshold == 50

\* get_valid_range: the NDVI default (-1.0, 1.0)
VMin == -1

VMax == 1

\* the values a cell of a cube can hold: below, at and inside the bounds,
\* above them, the default fill of a merged cube, and the non-finite values
CellValues == {NegInf, -2, -1, 0, 1, 2, DefaultFillValue, PosInf, NaN}

\* IEEE-754 comparisons: every comparison with NaN is false
Lt(a, b) == a # NaN /\ b # NaN /\ a < b

Gt(a, b) == a # NaN /\ b # NaN /\ a > b

\* DataArray.where(cond): the value where cond holds, NaN elsewhere
Where(v, cond) == IF cond THEN v ELSE NaN

\* clean_da = da.where(da < 1e30)
CleanCell(v) == Where(v, Lt(v, FillThreshold))

\* outlier_data = clean_da.where((clean_da < vmin) | (clean_da > vmax))
OutlierCell(v) ==
    LET c == CleanCell(v)
    IN  Where(c, Lt(c, VMin) \/ Gt(c, VMax))

OutlierData(series) == [t \in 1 .. Len(series) |-> OutlierCell(series[t])]

\* float addition with the infinities
FloatAdd(a, b) ==
    IF a = NaN \/ b = NaN THEN NaN
    ELSE IF a = PosInf THEN (IF b = NegInf THEN NaN ELSE PosInf)
    ELSE IF a = NegInf THEN (IF b = PosInf THEN NaN ELSE NegInf)
    ELSE IF b \in {PosInf, NegInf} THEN b
    ELSE a + b

RECURSIVE SumNotNull(_)
SumNotNull(series) ==
    IF series = <<>> THEN 0
    ELSE IF Head(series) = NaN THEN SumNotNull(Tail(series))
    ELSE FloatAdd(Head(series), SumNotNull(Tail(series)))

\* DataArray.count(dim='time'): the cells that are not NaN
CountNotNull(series) == Cardinality({t \in 1 .. Len(series) : series[t] # NaN})

\* DataArray.mean(dim='time', skipna=True), kept as <<sum, number of terms>>;
\* NaN where there is no term
MeanSkipNa(series) ==
    IF CountNotNull(series) = 0 THEN <<NaN, 0>>
    ELSE <<SumNotNull(series), CountNotNull(series)>>

RECURSIVE TotalCount(_, _)
TotalCount(c, ps) ==
    IF ps = {} THEN 0
    ELSE LET p == CHOOSE q \in ps : TRUE
         IN  CountNotNull(OutlierData(c[p])) + TotalCount(c, ps \ {p})

InitOutlier ==
    /\ IdleMask
    /\ IdleStack
    /\ IdleCube
    /\ IdleAgg
    /\ IdleMosaic
    /\ IdleTiles
    /\ IdleRange
    /\ IdleParse
    /\ IdleMerge
    /\ IdlePool
    /\ IdleGpkg
    /\ \E n \in 1 .. MaxSteps : cube \in [Pixels -> [1 .. n -> CellValues]]
    /\ out_disk \in {{}, {"mean"}, {"mean", "count"}}
    /\ created = {}
    /\ ol_pc = "start"
    /\ n_outliers = 0
    /\ outlier_mean = <<>>
    /\ outlier_count = <<>>
    /\ file_result = "pending"

\* return "Skipped (Exists)"
OutlierSkipExists ==
    /\ ol_pc = "start"
    /\ {"mean", "count"} \subseteq out_disk
    /\ ol_pc' = "done"
    /\ file_result' = "Skipped (Exists)"
    /\ UNCHANGED <<cube, out_disk, created, n_outliers, outlier_mean, outlier_count>>
    /\ UNCHANGED othersOutlier

\* the index is not in the dataset, or detect_crs returned None
OutlierNoVarOrCrs ==
    /\ ol_pc = "start"
    /\ ~({"mean", "count"} \subseteq out_disk)
    /\ ol_pc' = "done"
    /\ \E r \in {"Error: not found", "WARNING: No CRS"} : file_result' = r
    /\ UNCHANGED <<cube, out_disk, created, n_outliers, outlier_mean, outlier_count>>
    /\ UNCHANGED othersOutlier

\* n_outliers = outlier_data.count(); return "Skipped (No outliers)" when 0
OutlierCountAll ==
    /\ ol_pc = "start"
    /\ ~({"mean", "count"} \subseteq out_disk)
    /\ n_outliers' = TotalCount(cube, Pixels)
    /\ IF TotalCount(cube, Pixels) = 0
       THEN ol_pc' = "done" /\ file_result' = "Skipped (No outliers)"
       ELSE ol_pc' = "mean" /\ file_result' = file_result
    /\ UNCHANGED <<cube, out_disk, created, outlier_mean, outlier_count>>
    /\ UNCHANGED othersOutlier

\* outlier_mean = outlier_data.mean(dim='time', skipna=True); to_raster(mean_path)
OutlierWriteMean ==
    /\ ol_pc = "mean"
    /\ outlier_mean' = [p \in Pixels |-> MeanSkipNa(OutlierData(cube[p]))]
    /\ out_disk' = out_disk \cup {"mean"}
    /\ created' = created \cup {"mean"}
    /\ ol_pc' = "count"
    /\ UNCHANGED <<cube, n_outliers, outlier_count, file_result>>
    /\ UNCHANGED othersOutlier

\* outlier_count = outlier_data.count(dim='time'); to_raster(count_path)
OutlierWriteCount ==
    /\ ol_pc = "count"
    /\ outlier_count' = [p \in Pixels |-> CountNotNull(OutlierData(cube[p]))]
    /\ out_disk' = out_disk \cup {"count"}
    /\ created' = created \cup {"count"}
    /\ ol_pc' = "done"
    /\ file_result' = "OK"
    /\ UNCHANGED <<cube, n_outliers, outlier_mean>>
    /\ UNCHANGED othersOutlier

\* except Exception as e: return "Error (...)"
OutlierError ==
    /\ ol_pc \in {"start", "mean", "count"}
    /\ ~({"mean", "count"} \subseteq out_disk /\ ol_pc = "start")
    /\ ol_pc' = "done"
    /\ file_result' = "Error"
    /\ UNCHANGED <<cube, out_disk, created, n_outliers, outlier_mean, outlier_count>>
    /\ UNCHANGED othersOutlier

NextOutlier ==
    \/ OutlierSkipExists
    \/ OutlierNoVarOrCrs
    \/ OutlierCountAll
    \/ OutlierWriteMean
    \/ OutlierWriteCount
    \/ OutlierError

SpecOutlier == InitOutlier /\ [][NextOutlier]_vars

(***************************************************************************)
(* Claims about step 05.                                                   *)
(***************************************************************************)
IsFinite(v) == v \notin {NaN, PosInf, NegInf}

\* an outlier: finite and strictly outside [vmin, vmax]
IsOutlier(v) == IsFinite(v) /\ (v < VMin \/ v > VMax)

OutlierSteps(series) == {t \in 1 .. Len(series) : IsOutlier(series[t])}

RECURSIVE SumOver(_, _)
SumOver(series, ts) ==
    IF ts = {} THEN 0
    ELSE LET t == CHOOSE u \in ts : TRUE
         IN  series[t] + SumOver(series, ts \ {t})

ExpectedMean(series) ==
    IF OutlierSteps(series) = {} THEN <<NaN, 0>>
    ELSE <<SumOver(series, OutlierSteps(series)), Cardinality(OutlierSteps(series))>>

\* C9: in the rasters process_file wrote, each pixel's outlier_count is the
\* number of time steps whose value is finite and strictly outside
\* [vmin, vmax], and outlier_mean is the mean of exactly those values.
C9_OutliersAreFiniteAndOutside ==
    file_result = "OK" =>
        \A p \in Pixels :
            /\ outlier_count[p] = Cardinality(OutlierSteps(cube[p]))
            /\ outlier_mean[p] = ExpectedMean(cube[p])

CubeHasOutlier == \E p \in Pixels : OutlierSteps(cube[p]) # {}

\* C10: process_file writes an output file only for a cube that holds an
\* outlier; a cube with none gets neither the mean nor the count file.
C10_NoOutlierNoFile ==
    (created # {}) => CubeHasOutlier

(***************************************************************************)
(* Steps 04, 09 and 10: the workers that aggregate one cube over time      *)
(* (process_file, _process_tile, _process_tile_window), followed at one    *)
(* pixel, and detect_crs.                                                  *)
(***************************************************************************)
Days == {1, 2, 3}

AggStages == {"04", "09", "10"}

\* detect_crs found nothing
NoneCrs == "None"

\* the CRS metadata of a dataset; "" stands for an absent or empty entry
FullMetas ==
    [has_var : BOOLEAN,
     rio     : {"", "rio"},
     attr    : {"", "attr"},
     vars    : {<<[crs_wkt |-> w1, spatial_ref |-> s1],
                  [crs_wkt |-> w2, spatial_ref |-> ""]>> :
                    w1 \in {"", "v1w"}, s1 \in {"", "v1s"}, w2 \in {"", "v2w"}}]

NoMeta ==
    [has_var |-> TRUE, rio |-> "", attr |-> "",
     vars |-> <<[crs_wkt |-> "", spatial_ref |-> ""],
                [crs_wkt |-> "", spatial_ref |-> ""]>>]

\* a cube of step 03 (CRS on the grid mapping), a dataset without a CRS, and a
\* dataset without the index variable
FewMetas ==
    {[NoMeta EXCEPT !.rio = "rio"], NoMeta, [NoMeta EXCEPT !.has_var = FALSE]}

\* ds[var].attrs.get('crs_wkt') or ds[var].attrs.get('spatial_ref')
VarAttrCrs(var) == IF var.crs_wkt # "" THEN var.crs_wkt ELSE var.spatial_ref

\* for var in ds.data_vars: ... if crs: return crs
RECURSIVE FirstVarCrs(_)
FirstVarCrs(data_vars) ==
    IF data_vars = <<>> THEN NoneCrs
    ELSE IF VarAttrCrs(Head(data_vars)) # "" THEN VarAttrCrs(Head(data_vars))
    ELSE FirstVarCrs(Tail(data_vars))

detect_crs_attr_first(m) ==
    IF m.attr # "" THEN m.attr
    ELSE IF m.rio # "" THEN m.rio
    ELSE FirstVarCrs(m.vars)

detect_crs(m) ==
    IF m.rio # "" THEN m.rio
    ELSE IF m.attr # "" THEN m.attr
    ELSE FirstVarCrs(m.vars)

Ge(a, b) == a # NaN /\ b # NaN /\ a >= b

Le(a, b) == a # NaN /\ b # NaN /\ a <= b

ValidCellOpenBelow(v) == Where(v, Le(v, VMax))

\* da.where((da >= vmin) & (da <= vmax)), one cell
ValidCell(v) == Where(v, Ge(v, VMin) /\ Le(v, VMax))

InWindowEndExclusive(day, w) == day >= w[1] /\ day < w[2]

\* (time_vals >= window_start) & (time_vals <= window_end), one time step
InWindow(day, w) == day >= w[1] /\ day <= w[2]

\* np.where(time_mask)[0]: the matching time steps, in order, from step t on
RECURSIVE WhereMask(_, _, _)
WhereMask(days, w, t) ==
    IF t > Len(days) THEN <<>>
    ELSE IF InWindow(days[t], w) THEN <<t>> \o WhereMask(days, w, t + 1)
    ELSE WhereMask(days, w, t + 1)

\* da.isel(time=...) and the valid-range filter
ValidData(vals, sel) == [i \in 1 .. Len(sel) |-> ValidCell(vals[sel[i]])]

\* the files a worker writes
AggOutputs(stage) ==
    CASE stage = "04" -> {"mean"}
      [] stage = "09" -> {"count_tmp"}
      [] OTHER -> {"mean_tmp", "count_tmp"}

\* sorted sequences of days of a given length
SortedDays(n) ==
    {d \in [1 .. n -> Days] : \A i \in 1 .. n - 1 : d[i] <= d[i + 1]}

InitAgg ==
    /\ IdleMask
    /\ IdleStack
    /\ IdleCube
    /\ IdleOutlier
    /\ IdleMosaic
    /\ IdleTiles
    /\ IdleRange
    /\ IdleParse
    /\ IdleMerge
    /\ IdlePool
    /\ IdleGpkg
    /\ a_stage \in AggStages
    /\ \E n \in 0 .. MaxSteps :
          /\ a_vals \in [1 .. n -> CellValues]
          /\ IF a_stage = "10" THEN a_days \in SortedDays(n)
             ELSE a_days = [t \in 1 .. n |-> 1]
    /\ IF a_stage = "10"
       THEN a_window \in {w \in Days \X Days : w[1] <= w[2]}
       ELSE a_window = <<0, 0>>
    /\ IF a_stage = "04" THEN a_meta \in FullMetas ELSE a_meta \in FewMetas
    /\ IF a_stage = "04" THEN a_disk \in {{}, {"mean"}} ELSE a_disk = {}
    /\ a_written = {}
    /\ a_pc = "start"
    /\ a_crs = ""
    /\ a_sel = <<>>
    /\ a_mean = <<>>
    /\ a_count = 0
    /\ a_result = "pending"

aggInputs == <<a_stage, a_vals, a_days, a_window, a_meta>>

\* step 04: if os.path.exists(output_path): return "Skipped (Exists)"
AggSkipExists ==
    /\ a_pc = "start"
    /\ a_stage = "04"
    /\ "mean" \in a_disk
    /\ a_pc' = "done"
    /\ a_result' = "Skipped (Exists)"
    /\ UNCHANGED <<aggInputs, a_disk, a_written, a_crs, a_sel, a_mean, a_count>>
    /\ UNCHANGED othersAgg

AggPastExists == a_stage = "04" => "mean" \notin a_disk

\* the index is not among ds.data_vars: an error string in step 04, 'skip' in
\* steps 09 and 10
AggVarNotFound ==
    /\ a_pc = "start"
    /\ AggPastExists
    /\ ~a_meta.has_var
    /\ a_pc' = "done"
    /\ a_result' = IF a_stage = "04" THEN "Error: not found" ELSE "skip"
    /\ UNCHANGED <<aggInputs, a_disk, a_written, a_crs, a_sel, a_mean, a_count>>
    /\ UNCHANGED othersAgg

\* source_crs = detect_crs(ds, da); None: a warning string in step 04, 'skip'
\* in steps 09 and 10
AggDetectCrs ==
    /\ a_pc = "start"
    /\ AggPastExists
    /\ a_meta.has_var
    /\ a_crs' = detect_crs(a_meta)
    /\ IF detect_crs(a_meta) = NoneCrs
       THEN /\ a_pc' = "done"
            /\ a_result' = IF a_stage = "04" THEN "WARNING: No CRS" ELSE "skip"
       ELSE /\ a_pc' = "select"
            /\ a_result' = a_result
    /\ UNCHANGED <<aggInputs, a_disk, a_written, a_sel, a_mean, a_count>>
    /\ UNCHANGED othersAgg

\* the time steps of the statistics: all of them in steps 04 and 09, those of
\* the window in step 10; n_obs == 0 is a 'skip' in steps 09 and 10
AggSelect ==
    /\ a_pc = "select"
    /\ LET sel == IF a_stage = "10" THEN WhereMask(a_days, a_window, 1)
                  ELSE [t \in 1 .. Len(a_vals) |-> t]
       IN  /\ a_sel' = sel
           /\ IF a_stage # "04" /\ Len(sel) = 0
              THEN a_pc' = "done" /\ a_result' = "skip"
              ELSE a_pc' = "stats" /\ a_result' = a_result
    /\ UNCHANGED <<aggInputs, a_disk, a_written, a_crs, a_mean, a_count>>
    /\ UNCHANGED othersAgg

\* valid.mean(dim='time', skipna=True) and valid.count(dim='time')
AggStats ==
    /\ a_pc = "stats"
    /\ a_mean' = IF a_stage = "09" THEN a_mean
                 ELSE MeanSkipNa(ValidData(a_vals, a_sel))
    /\ a_count' = IF a_stage = "04" THEN a_count
                  ELSE CountNotNull(ValidData(a_vals, a_sel))
    /\ a_pc' = IF a_stage = "09" THEN "write_count" ELSE "write_mean"
    /\ UNCHANGED <<aggInputs, a_disk, a_written, a_crs, a_sel, a_result>>
    /\ UNCHANGED othersAgg

\* to_raster of the mean: the output of step 04, mean_tmp of step 10
AggWriteMean ==
    /\ a_pc = "write_mean"
    /\ LET f == IF a_stage = "04" THEN "mean" ELSE "mean_tmp"
       IN  /\ a_disk' = a_disk \cup {f}
           /\ a_written' = a_written \cup {f}
    /\ IF a_stage = "04"
       THEN a_pc' = "done" /\ a_result' = "OK"
       ELSE a_pc' = "write_count" /\ a_result' = a_result
    /\ UNCHANGED <<aggInputs, a_crs, a_sel, a_mean, a_count>>
    /\ UNCHANGED othersAgg

\* to_raster of count_tmp, return {'status': 'ok', ...}
AggWriteCount ==
    /\ a_pc = "write_count"
    /\ a_disk' = a_disk \cup {"count_tmp"}
    /\ a_written' = a_written \cup {"count_tmp"}
    /\ a_pc' = "done"
    /\ a_result' = "ok"
    /\ UNCHANGED <<aggInputs, a_crs, a_sel, a_mean, a_count>>
    /\ UNCHANGED othersAgg

\* except Exception as e: an error string in step 04, 'error' in steps 09, 10
AggError ==
    /\ a_pc \in {"start", "select", "stats", "write_mean", "write_count"}
    /\ a_pc = "start" => AggPastExists
    /\ a_pc' = "done"
    /\ a_result' = IF a_stage = "04" THEN "Error" ELSE "error"
    /\ UNCHANGED <<aggInputs, a_disk, a_written, a_crs, a_sel, a_mean, a_count>>
    /\ UNCHANGED othersAgg

NextAgg ==
    \/ AggSkipExists
    \/ AggVarNotFound
    \/ AggDetectCrs
    \/ AggSelect
    \/ AggStats
    \/ AggWriteMean
    \/ AggWriteCount
    \/ AggError

SpecAgg == InitAgg /\ [][NextAgg]_vars

(***************************************************************************)
(* Claims about steps 04, 09, 10 and detect_crs.                           *)
(***************************************************************************)
\* a value the statistics use: vmin <= value <= vmax, which no NaN and no
\* infinity satisfies
InRange(v) == IsFinite(v) /\ v >= VMin /\ v <= VMax

\* the positions of a_sel whose value is used
UsedPositions == {i \in 1 .. Len(a_sel) : InRange(a_vals[a_sel[i]])}

RECURSIVE SumUsed(_)
SumUsed(ps) ==
    IF ps = {} THEN 0
    ELSE LET i == CHOOSE j \in ps : TRUE
         IN  a_vals[a_sel[i]] + SumUsed(ps \ {i})

MeanComputed == a_stage \in {"04", "10"} /\ a_mean # <<>>

CountComputed ==
    /\ a_stage \in {"09", "10"}
    /\ a_pc = "write_count" \/ (a_pc = "done" /\ a_result = "ok")

\* C11: in steps 04, 09 and 10 a value is used iff vmin <= value <= vmax: the
\* valid count is the number of such time steps, the mean is the mean of
\* exactly those values, and the mean is NaN exactly when there is none.
C11_ValidRangeStatistics ==
    /\ CountComputed => a_count = Cardinality(UsedPositions)
    /\ MeanComputed =>
          /\ UsedPositions # {} =>
                a_mean = <<SumUsed(UsedPositions), Cardinality(UsedPositions)>>
          /\ (a_mean[1] = NaN) <=> (UsedPositions = {})

\* a window holding a value on the bound and a value that is not finite
C11_Witness ==
    /\ a_stage = "10"
    /\ a_result = "ok"
    /\ Len(a_sel) = 2
    /\ \E i \in 1 .. 2 : a_vals[a_sel[i]] = VMin
    /\ \E i \in 1 .. 2 : a_vals[a_sel[i]] \in {NegInf, PosInf, NaN}
    /\ a_count = 1
    /\ a_mean = <<VMin, 1>>

WindowSteps == {t \in 1 .. Len(a_days) : a_window[1] <= a_days[t] /\ a_days[t] <= a_window[2]}

CrsCandidates(m) ==
    <<m.rio, m.attr>> \o
    [k \in 1 .. 2 * Len(m.vars) |->
        IF k % 2 = 1 THEN m.vars[(k + 1) \div 2].crs_wkt
        ELSE m.vars[k \div 2].spatial_ref]

FirstNonEmpty(cands) ==
    IF \A k \in 1 .. Len(cands) : cands[k] = "" THEN NoneCrs
    ELSE cands[CHOOSE k \in 1 .. Len(cands) :
                  cands[k] # "" /\ \A j \in 1 .. k - 1 : cands[j] = ""]

\* C13: detect_crs returns the first non-empty CRS in the order rio accessor,
\* dataset attribute 'crs', data-variable attribute 'crs_wkt' or
\* 'spatial_ref', and None only when all are absent; on None the worker
\* returns a warning or skip result and writes nothing.
C13_CrsPriority ==
    a_crs # "" =>
        /\ a_crs = FirstNonEmpty(CrsCandidates(a_meta))
        /\ a_crs = NoneCrs =>
              /\ a_pc = "done"
              /\ a_written = {}
              /\ a_result \in {"WARNING: No CRS", "skip"}

\* no rio CRS, a dataset attribute and a variable attribute: the dataset
\* attribute wins and the mean is written
C13_Witness ==
    /\ a_stage = "04"
    /\ a_result = "OK"
    /\ a_meta.rio = ""
    /\ a_meta.attr # ""
    /\ a_meta.vars[1].crs_wkt # ""
    /\ a_crs = a_meta.attr

(***************************************************************************)
(* Steps 06-09: the mosaic of the tiles of one index.  Kind "06" is        *)
(* mosaic_vi (and mosaic_outlier_mean, mosaic_outlier_count, which have    *)
(* the same body); kind "09" is the try block of build_count_valid_mosaic  *)
(* with its helper _mosaic_tiles (_mosaic_temp_tiles of step 10 has the    *)
(* same body).                                                             *)
(***************************************************************************)
MaxTiles == 3

MaxRuns == 2

MosaicKinds == {"06", "09"}

TileStates == {"ok", "unopenable"}

Range(seq) == {seq[i] : i \in 1 .. Len(seq)}

InitMosaic ==
    /\ IdleMask
    /\ IdleStack
    /\ IdleCube
    /\ IdleOutlier
    /\ IdleAgg
    /\ IdleTiles
    /\ IdleRange
    /\ IdleParse
    /\ IdleMerge
    /\ IdlePool
    /\ IdleGpkg
    /\ mz_kind \in MosaicKinds
    /\ \E n \in 0 .. MaxTiles : tif_files \in [1 .. n -> TileStates]
    /\ output_file \in {"absent", "complete"}
    /\ mz_pc = "start"
    /\ mz_run = 1
    /\ opening = <<>>
    /\ src_files = <<>>
    /\ open_handles = {}
    /\ mz_outcome = <<>>

mosaicInputs == <<mz_kind, tif_files, mz_run>>

\* if not tif_files: ... return
MosaicNoTiles ==
    /\ mz_pc = "start"
    /\ tif_files = <<>>
    /\ mz_pc' = "done"
    /\ mz_outcome' = Append(mz_outcome, "no_tiles")
    /\ UNCHANGED <<mosaicInputs, output_file, opening, src_files, open_handles>>
    /\ UNCHANGED othersMosaic

\* if os.path.exists(output_file): "already exists - skipping"
MosaicSkipExists ==
    /\ mz_pc = "start"
    /\ tif_files # <<>>
    /\ output_file # "absent"
    /\ mz_pc' = "done"
    /\ mz_outcome' = Append(mz_outcome, "skipped_exists")
    /\ UNCHANGED <<mosaicInputs, output_file, opening, src_files, open_handles>>
    /\ UNCHANGED othersMosaic

\* src_files = []; try:
MosaicEnterTry ==
    /\ mz_pc = "start"
    /\ tif_files # <<>>
    /\ output_file = "absent"
    /\ mz_pc' = "open"
    /\ opening' = <<>>
    /\ src_files' = <<>>
    /\ UNCHANGED <<mosaicInputs, output_file, open_handles, mz_outcome>>
    /\ UNCHANGED othersMosaic

\* one rasterio.open(f) of the comprehension succeeds
MosaicOpenOne ==
    /\ mz_pc = "open"
    /\ Len(opening) < Len(tif_files)
    /\ tif_files[Len(opening) + 1] = "ok"
    /\ opening' = Append(opening, Len(opening) + 1)
    /\ open_handles' = open_handles \cup {Len(opening) + 1}
    /\ UNCHANGED <<mosaicInputs, output_file, mz_pc, src_files, mz_outcome>>
    /\ UNCHANGED othersMosaic

\* the handles the finally block closes: those of the list bound to src_files
ClosedByFinally(bound) == Range(bound)

\* one rasterio.open(f) raises: the list under construction is dropped and
\* src_files is still []; the handles of the dropped list are closed only if
\* the garbage collector has reclaimed them
MosaicOpenRaises ==
    /\ mz_pc = "open"
    /\ Len(opening) < Len(tif_files)
    /\ tif_files[Len(opening) + 1] = "unopenable"
    /\ \E reclaimed \in BOOLEAN :
          open_handles' = IF reclaimed THEN open_handles \ Range(opening)
                          ELSE open_handles
    /\ opening' = <<>>
    /\ mz_pc' = "finally_raise"
    /\ UNCHANGED <<mosaicInputs, output_file, src_files, mz_outcome>>
    /\ UNCHANGED othersMosaic

\* the comprehension ends and the list is bound to src_files
MosaicOpenDone ==
    /\ mz_pc = "open"
    /\ Len(opening) = Len(tif_files)
    /\ src_files' = opening
    /\ opening' = <<>>
    /\ mz_pc' = "merge"
    /\ UNCHANGED <<mosaicInputs, output_file, open_handles, mz_outcome>>
    /\ UNCHANGED othersMosaic

\* rasterio_merge(src_files, ...) returns; _mosaic_tiles returns through its
\* finally block
MosaicMerge ==
    /\ mz_pc = "merge"
    /\ mz_pc' = IF mz_kind = "06" THEN "create" ELSE "finally_ok"
    /\ UNCHANGED <<mosaicInputs, output_file, opening, src_files, open_handles, mz_outcome>>
    /\ UNCHANGED othersMosaic

\* rasterio_merge raises
MosaicMergeRaises ==
    /\ mz_pc = "merge"
    /\ mz_pc' = "finally_raise"
    /\ UNCHANGED <<mosaicInputs, output_file, opening, src_files, open_handles, mz_outcome>>
    /\ UNCHANGED othersMosaic

\* with rasterio.open(output_file, 'w', **profile) as dst: the file is created
MosaicCreateOutput ==
    /\ mz_pc = "create"
    /\ output_file' = "partial"
    /\ mz_pc' = "write"
    /\ UNCHANGED <<mosaicInputs, opening, src_files, open_handles, mz_outcome>>
    /\ UNCHANGED othersMosaic

\* dst.write(...) and the close of dst succeed
MosaicWrite ==
    /\ mz_pc = "write"
    /\ output_file' = "complete"
    /\ IF mz_kind = "06"
       THEN mz_pc' = "finally_ok" /\ mz_outcome' = mz_outcome
       ELSE mz_pc' = "done" /\ mz_outcome' = Append(mz_outcome, "written")
    /\ UNCHANGED <<mosaicInputs, opening, src_files, open_handles>>
    /\ UNCHANGED othersMosaic

\* the creation of the output or dst.write raises: step 06 prints and
\* re-raises through finally, step 09 prints "Mosaic failed"
MosaicWriteRaises ==
    /\ mz_pc \in {"create", "write"}
    /\ IF mz_kind = "06"
       THEN mz_pc' = "finally_raise" /\ mz_outcome' = mz_outcome
       ELSE mz_pc' = "done" /\ mz_outcome' = Append(mz_outcome, "failed")
    /\ UNCHANGED <<mosaicInputs, output_file, opening, src_files, open_handles>>
    /\ UNCHANGED othersMosaic

\* finally: for src in src_files: src.close()
MosaicFinally ==
    /\ mz_pc \in {"finally_ok", "finally_raise"}
    /\ open_handles' = open_handles \ ClosedByFinally(src_files)
    /\ CASE mz_pc = "finally_raise" ->
              /\ mz_pc' = "done"
              /\ mz_outcome' = Append(mz_outcome,
                                      IF mz_kind = "06" THEN "raised" ELSE "failed")
         [] mz_pc = "finally_ok" /\ mz_kind = "06" ->
              /\ mz_pc' = "done"
              /\ mz_outcome' = Append(mz_outcome, "written")
         [] OTHER ->
              /\ mz_pc' = "create"
              /\ mz_outcome' = mz_outcome
    /\ UNCHANGED <<mosaicInputs, output_file, opening, src_files>>
    /\ UNCHANGED othersMosaic

\* the stage is started again on the same inputs, in a new process
MosaicRunAgain ==
    /\ mz_pc = "done"
    /\ mz_run < MaxRuns
    /\ mz_run' = mz_run + 1
    /\ mz_pc' = "start"
    /\ opening' = <<>>
    /\ src_files' = <<>>
    /\ open_handles' = {}
    /\ UNCHANGED <<mz_kind, tif_files, output_file, mz_outcome>>
    /\ UNCHANGED othersMosaic

NextMosaic ==
    \/ MosaicNoTiles
    \/ MosaicSkipExists
    \/ MosaicEnterTry
    \/ MosaicOpenOne
    \/ MosaicOpenRaises
    \/ MosaicOpenDone
    \/ MosaicMerge
    \/ MosaicMergeRaises
    \/ MosaicCreateOutput
    \/ MosaicWrite
    \/ MosaicWriteRaises
    \/ MosaicFinally
    \/ MosaicRunAgain

SpecMosaic == InitMosaic /\ [][NextMosaic]_vars

(***************************************************************************)
(* Claims about the mosaic steps.                                          *)
(***************************************************************************)
\* C14: when a mosaic function has returned or raised, every raster handle it
\* opened is closed, also when the open of a later input failed after earlier
\* inputs were opened and when the merge or the write failed.
C14_HandlesClosed ==
    mz_pc = "done" => open_handles = {}

RunFailed ==
    /\ mz_pc = "done"
    /\ mz_outcome # <<>>
    /\ mz_outcome[Len(mz_outcome)] \in {"raised", "failed"}

\* C16: when a mosaic stage has failed after it started writing its output,
\* the incomplete mosaic file is gone when the stage returns or raises, and
\* no later run skips it as already complete.
C16_PartialMosaicRemoved ==
    /\ RunFailed => output_file # "partial"
    /\ \A r \in 1 .. Len(mz_outcome) :
          mz_outcome[r] = "skipped_exists" => output_file = "complete"

(***************************************************************************)
(* hls_utils: the tile allow-list, and the filter of collect_files in step *)
(* 03.  A text is a sequence of atoms: the separators ".", "_", "/", " ",  *)
(* the letter "T", and words that hold no separator and do not start with  *)
(* "T".                                                                    *)
(***************************************************************************)
MaxPaths == 2

\* text.split(sep)
RECURSIVE SplitOn(_, _)
SplitOn(text, sep) ==
    IF \A k \in 1 .. Len(text) : text[k] # sep THEN <<text>>
    ELSE LET k == CHOOSE j \in 1 .. Len(text) :
                      text[j] = sep /\ \A i \in 1 .. j - 1 : text[i] # sep
         IN  <<SubSeq(text, 1, k - 1)>> \o SplitOn(SubSeq(text, k + 1, Len(text)), sep)

\* text.split(): the runs of atoms between blanks, empty runs dropped
SplitBlank(text) == SelectSeq(SplitOn(text, " "), LAMBDA tok : tok # <<>>)

\* os.path.basename
Basename(path) == SplitOn(path, "/")[Len(SplitOn(path, "/"))]

StartsWithT(text) == text # <<>> /\ text[1] = "T"

\* get_configured_tiles: set(raw.split()) if raw else set()
get_configured_tiles(raw) == Range(SplitBlank(raw))

\* tile_id_from_path; None is <<"None">>
NoTile == <<"None">>

tile_id_from_path(filepath) ==
    LET name  == Basename(filepath)
        parts == SplitOn(name, ".")
        tok   == SplitOn(name, "_")[1]
    IN  IF Len(parts) >= 3 /\ StartsWithT(parts[3]) THEN Tail(parts[3])
        ELSE IF StartsWithT(tok) /\ Len(tok) > 1 THEN Tail(tok)
        ELSE NoTile

\* filter_by_configured_tiles
filter_by_configured_tiles(paths, raw) ==
    IF get_configured_tiles(raw) = {} THEN paths
    ELSE SelectSeq(paths, LAMBDA f : tile_id_from_path(f) \in get_configured_tiles(raw))

VegetationIndices == {<<"NDVI">>}

\* extract_metadata_from_filename: the tile field when the name has seven
\* parts, an index in the last part but one and a date that parses
MetadataTile(filepath) ==
    LET parts == SplitOn(Basename(filepath), ".")
    IN  IF /\ Len(parts) >= 7
           /\ parts[Len(parts) - 1] \in VegetationIndices
           /\ parts[4] = <<"2020081">>
        THEN parts[3]
        ELSE NoTile

\* collect_files, lines 228-232: is the file kept
CollectKeeps(filepath, raw) ==
    LET tile_id == MetadataTile(filepath)
        bare    == IF StartsWithT(tile_id) THEN Tail(tile_id) ELSE tile_id
    IN  /\ tile_id # NoTile
        /\ tile_id # <<>>
        /\ ~(get_configured_tiles(raw) # {} /\ bare \notin get_configured_tiles(raw))

GranuleName(tile) ==
    <<"HLS", ".", "L30", ".">> \o tile \o
    <<".", "2020081", ".", "v2", ".", "0", ".", "NDVI", ".", "tif">>

\* names of the two conventions, with and without the leading T, and names
\* without a tile
PathNames ==
    {GranuleName(<<"T", "18TVL">>),
     <<"in", "/", "L30", "/">> \o GranuleName(<<"T", "34HBH">>),
     GranuleName(<<"18TVL">>),
     GranuleName(<<"T">>),
     <<"T", "18TVL", "_", "NDVI", ".", "nc">>,
     <<"T", "34HBH", "_", "dir", "/", "T", "18TVL", "_", "NDVI", "_", "average", ".", "tif">>,
     <<"18TVL", "_", "NDVI", ".", "nc">>,
     <<"mosaic", ".", "tif">>}

\* values of HLS_TILES: unset or empty, blank, one tile, two tiles
TileSettings ==
    {<<>>, <<" ">>, <<"18TVL">>, <<" ", "34HBH", " ">>, <<"18TVL", " ", " ", "34HBH">>,
     <<"99XXX">>}

InitTiles ==
    /\ IdleMask
    /\ IdleStack
    /\ IdleCube
    /\ IdleOutlier
    /\ IdleAgg
    /\ IdleMosaic
    /\ IdleRange
    /\ IdleParse
    /\ IdleMerge
    /\ IdlePool
    /\ IdleGpkg
    /\ hls_tiles \in TileSettings
    /\ \E n \in 0 .. MaxPaths : filepaths \in [1 .. n -> PathNames]
    /\ filtered = <<>>
    /\ collected = <<>>
    /\ tl_pc = "start"

\* a stage filters the paths it found
FilterPaths ==
    /\ tl_pc \in {"start", "collected"}
    /\ filtered' = filter_by_configured_tiles(filepaths, hls_tiles)
    /\ tl_pc' = IF tl_pc = "start" THEN "filtered" ELSE "both"
    /\ UNCHANGED <<hls_tiles, filepaths, collected>>
    /\ UNCHANGED othersTiles

\* collect_files of step 03 over the same paths (the dates are equal, so the
\* sort by date keeps the order)
CollectFiles ==
    /\ tl_pc \in {"start", "filtered"}
    /\ collected' = SelectSeq(filepaths, LAMBDA f : CollectKeeps(f, hls_tiles))
    /\ tl_pc' = IF tl_pc = "start" THEN "collected" ELSE "both"
    /\ UNCHANGED <<hls_tiles, filepaths, filtered>>
    /\ UNCHANGED othersTiles

NextTiles ==
    \/ FilterPaths
    \/ CollectFiles

SpecTiles == InitTiles /\ [][NextTiles]_vars

(***************************************************************************)
(* Claims about the tile allow-list.                                       *)
(***************************************************************************)
\* the tiles named in HLS_TILES
AllowList == {tok \in Range(SplitOn(hls_tiles, " ")) : tok # <<>>}

\* C18a: the filter returns its input unchanged when HLS_TILES is unset or
\* empty, and otherwise exactly the paths whose tile ID is in the allow-list,
\* in input order, dropping paths without a tile ID.
FilterIsAllowList ==
    tl_pc \in {"filtered", "both"} =>
        IF AllowList = {} THEN filtered = filepaths
        ELSE filtered = SelectSeq(filepaths,
                                  LAMBDA f : /\ tile_id_from_path(f) # NoTile
                                             /\ tile_id_from_path(f) \in AllowList)

\* C18: the filter is as FilterIsAllowList says, and collect_files of step 03
\* keeps, of the files it recognises, the same ones as
\* filter_by_configured_tiles does for the same HLS_TILES.
C18_TileFilterUniform ==
    /\ FilterIsAllowList
    /\ tl_pc = "both" =>
          \A i \in 1 .. Len(filepaths) :
              (MetadataTile(filepaths[i]) \notin {NoTile, <<>>}) =>
                  (filepaths[i] \in Range(collected) <=> filepaths[i] \in Range(filtered))

(***************************************************************************)
(* hls_utils.get_valid_range.  The text of VALID_RANGE_{VI} is a sequence  *)
(* of atoms: numbers, the comma, and a word that is no number.  Values are *)
(* kept in halves, so that -0.5 is -1 and 2.0 is 4.                        *)
(***************************************************************************)
MaxChars == 4

RangeAtoms == {"-1", "1", "0.5", ",", "abc"}

\* float(text) of a piece between commas: its value, or ValueError
NumberValue(atom) ==
    CASE atom = "-1" -> -2
      [] atom = "1" -> 2
      [] atom = "0.5" -> 1

IsNumber(piece) == Len(piece) = 1 /\ piece[1] \in {"-1", "1", "0.5"}

\* defaults = {"NDVI": (-1.0, 1.0), "EVI2": (-1.0, 2.0), "NIRv": (-0.5, 1.0)}
RangeDefaults(vi) ==
    CASE vi = "NDVI" -> <<-2, 2>>
      [] vi = "EVI2" -> <<-2, 4>>
      [] vi = "NIRv" -> <<-1, 2>>
      [] OTHER -> <<-2, 2>>

\* get_valid_range: <<the pair returned, was the warning printed>>
get_valid_range(vi, raw) ==
    IF raw = <<>> THEN <<RangeDefaults(vi), FALSE>>
    ELSE LET parts == SplitOn(raw, ",")
         IN  IF Len(parts) >= 2 /\ IsNumber(parts[1]) /\ IsNumber(parts[2])
             THEN <<<<NumberValue(parts[1][1]), NumberValue(parts[2][1])>>, FALSE>>
             ELSE <<RangeDefaults(vi), TRUE>>

\* the texts: between two commas there is at most one atom
RangeTexts ==
    UNION {{t \in [1 .. n -> RangeAtoms] :
               \A k \in 1 .. n - 1 : t[k] = "," \/ t[k + 1] = ","} :
           n \in 0 .. MaxChars}

InitRange ==
    /\ IdleMask
    /\ IdleStack
    /\ IdleCube
    /\ IdleOutlier
    /\ IdleAgg
    /\ IdleMosaic
    /\ IdleTiles
    /\ IdleParse
    /\ IdleMerge
    /\ IdlePool
    /\ IdleGpkg
    /\ vi_type \in {"NDVI", "EVI2", "NIRv"}
    /\ valid_range_env \in RangeTexts
    /\ range_result = <<>>
    /\ range_warned = FALSE
    /\ vr_pc = "start"

GetValidRange ==
    /\ vr_pc = "start"
    /\ range_result' = get_valid_range(vi_type, valid_range_env)[1]
    /\ range_warned' = get_valid_range(vi_type, valid_range_env)[2]
    /\ vr_pc' = "done"
    /\ UNCHANGED <<vi_type, valid_range_env>>
    /\ UNCHANGED othersRange

NextRange == GetValidRange

SpecRange == InitRange /\ [][NextRange]_vars

(***************************************************************************)
(* Claims about get_valid_range.                                           *)
(***************************************************************************)
\* the text is two numbers with a comma between them
TwoNumbers(raw) ==
    /\ Len(raw) = 3
    /\ raw[2] = ","
    /\ raw[1] \in {"-1", "1", "0.5"}
    /\ raw[3] \in {"-1", "1", "0.5"}

\* C19: get_valid_range returns the configured pair when the variable is two
\* comma-separated numbers; otherwise, when it is unset or empty and when it
\* does not parse, it returns the default of the index and prints a warning.
C19_RangeOrDefaultWithWarning ==
    vr_pc = "done" =>
        IF TwoNumbers(valid_range_env)
        THEN range_result = <<NumberValue(valid_range_env[1]), NumberValue(valid_range_env[3])>>
        ELSE range_result = RangeDefaults(vi_type) /\ range_warned

(***************************************************************************)
(* Step 10: parse_windows.  The text of TIMESLICE_WINDOWS is a sequence of *)
(* atoms: label characters, ":", "|", the blank, and date texts.           *)
(***************************************************************************)
MaxTokens == 2

\* [A-Za-z0-9_]
LabelAtoms == {"a", "b", "1", "_"}

\* the texts that match \d{4}-\d{2}-\d{2}
DateShaped == {"2021-01-01", "2021-06-30", "2021-02-30"}

\* pd.Timestamp(text): the day, or an exception for a date that does not exist
TimestampRaises(text) == text = "2021-02-30"

Timestamp(text) == IF text = "2021-01-01" THEN 1 ELSE 2

ValueError == "ValueError"

NoMatch == <<>>

\* re.fullmatch(r'([A-Za-z0-9_]+):(\d{4}-\d{2}-\d{2})\|(\d{4}-\d{2}-\d{2})', token):
\* the three groups, or no match
MatchGroups(token) ==
    IF \A k \in 1 .. Len(token) : token[k] # ":" THEN NoMatch
    ELSE LET k == CHOOSE j \in 1 .. Len(token) :
                      token[j] = ":" /\ \A i \in 1 .. j - 1 : token[i] # ":"
         IN  IF /\ k >= 2
                /\ \A i \in 1 .. k - 1 : token[i] \in LabelAtoms
                /\ Len(token) = k + 3
                /\ token[k + 1] \in DateShaped
                /\ token[k + 2] = "|"
                /\ token[k + 3] \in DateShaped
             THEN <<SubSeq(token, 1, k - 1), token[k + 1], token[k + 3]>>
             ELSE NoMatch

StartNotBeforeEnd(start, end) == start >= end

\* if start > end: raise ValueError
StartAfterEnd(start, end) == start > end

\* the loop over windows_str.split(), from token i on
RECURSIVE ParseTokens(_, _, _, _)
ParseTokens(tokens, i, wins, seen_labels) ==
    IF i > Len(tokens) THEN (IF wins = <<>> THEN ValueError ELSE wins)
    ELSE LET m == MatchGroups(tokens[i])
         IN  IF m = NoMatch THEN ValueError
             ELSE IF m[1] \in seen_labels THEN ValueError
             ELSE IF TimestampRaises(m[2]) \/ TimestampRaises(m[3]) THEN ValueError
             ELSE IF StartAfterEnd(Timestamp(m[2]), Timestamp(m[3])) THEN ValueError
             ELSE ParseTokens(tokens, i + 1,
                              Append(wins, [label |-> m[1], start |-> Timestamp(m[2]),
                                            end |-> Timestamp(m[3])]),
                              seen_labels \cup {m[1]})

parse_windows(text) ==
    IF SplitBlank(text) = <<>> THEN ValueError
    ELSE ParseTokens(SplitBlank(text), 1, <<>>, {})

\* well-formed tokens, and tokens with a start after the end, no pipe, a
\* character outside the label alphabet, no label, a date that does not
\* exist, a date of another shape, and a trailing part
WindowTokens ==
    {<<"a", ":", "2021-01-01", "|", "2021-06-30">>,
     <<"b", ":", "2021-06-30", "|", "2021-06-30">>,
     <<"a", "_", "1", ":", "2021-01-01", "|", "2021-01-01">>,
     <<"a", "b", ":", "2021-01-01", "|", "2021-06-30">>,
     <<"a", ":", "2021-06-30", "|", "2021-01-01">>,
     <<"a", ":", "2021-01-01", "2021-06-30">>,
     <<"a", "-", "b", ":", "2021-01-01", "|", "2021-06-30">>,
     <<":", "2021-01-01", "|", "2021-06-30">>,
     <<"b", ":", "2021-02-30", "|", "2021-06-30">>,
     <<"b", ":", "2021-1-1", "|", "2021-06-30">>,
     <<"a", ":", "2021-01-01", "|", "2021-06-30", "|", "2021-06-30">>}

\* ' '.join(tokens)
RECURSIVE JoinBlank(_)
JoinBlank(tokens) ==
    IF tokens = <<>> THEN <<>>
    ELSE IF Len(tokens) = 1 THEN tokens[1]
    ELSE tokens[1] \o <<" ">> \o JoinBlank(Tail(tokens))

InitParse ==
    /\ IdleMask
    /\ IdleStack
    /\ IdleCube
    /\ IdleOutlier
    /\ IdleAgg
    /\ IdleMosaic
    /\ IdleTiles
    /\ IdleRange
    /\ IdleMerge
    /\ IdlePool
    /\ IdleGpkg
    /\ \E n \in 0 .. MaxTokens :
          \E tokens \in [1 .. n -> WindowTokens] :
              \E padded \in BOOLEAN :
                  windows_str = IF padded THEN <<" ">> \o JoinBlank(tokens) \o <<" ", " ">>
                                ELSE JoinBlank(tokens)
    /\ parsed = <<>>
    /\ pw_pc = "start"

ParseWindows ==
    /\ pw_pc = "start"
    /\ parsed' = parse_windows(windows_str)
    /\ pw_pc' = "done"
    /\ UNCHANGED windows_str
    /\ UNCHANGED othersParse

NextParse == ParseWindows

SpecParse == InitParse /\ [][NextParse]_vars

(***************************************************************************)
(* Claims about parse_windows.                                             *)
(***************************************************************************)
CalendarDay(text) ==
    CASE text = "2021-01-01" -> 1
      [] text = "2021-06-30" -> 181
      [] OTHER -> 0

\* label:YYYY-MM-DD|YYYY-MM-DD with a label of letters, digits and
\* underscores, two dates of the calendar, and start <= end
WellFormed(token) ==
    \E n \in 1 .. Len(token) :
        /\ Len(token) = n + 4
        /\ \A i \in 1 .. n : token[i] \in {"a", "b", "1", "_"}
        /\ token[n + 1] = ":"
        /\ token[n + 3] = "|"
        /\ CalendarDay(token[n + 2]) > 0
        /\ CalendarDay(token[n + 4]) > 0
        /\ CalendarDay(token[n + 2]) <= CalendarDay(token[n + 4])

LabelOf(token) ==
    SubSeq(token, 1, (CHOOSE j \in 1 .. Len(token) : token[j] = ":") - 1)

InputTokens == SelectSeq(SplitOn(windows_str, " "), LAMBDA tok : tok # <<>>)

Accepted ==
    /\ InputTokens # <<>>
    /\ \A i \in 1 .. Len(InputTokens) : WellFormed(InputTokens[i])
    /\ \A i, j \in 1 .. Len(InputTokens) :
          i # j => LabelOf(InputTokens[i]) # LabelOf(InputTokens[j])

\* C20: parse_windows returns the windows in input order exactly when the
\* text is one or more well-formed tokens with distinct labels, and raises
\* ValueError for every other text, the empty one included.
C20_ParseWindowsGrammar ==
    pw_pc = "done" =>
        IF Accepted
        THEN /\ parsed # ValueError
             /\ Len(parsed) = Len(InputTokens)
             /\ \A i \in 1 .. Len(parsed) :
                   /\ parsed[i].label = LabelOf(InputTokens[i])
                   /\ parsed[i].start <= parsed[i].end
        ELSE parsed = ValueError

\* two windows returned in input order, one of a single day
C20_Witness ==
    /\ pw_pc = "done"
    /\ parsed # ValueError
    /\ Len(parsed) = 2
    /\ parsed[1].label = <<"b">>
    /\ parsed[1].start = parsed[1].end
    /\ parsed[2].label = <<"a", "_", "1">>

(***************************************************************************)
(* Steps 09/10: the mosaic of the temp rasters of one window, pixel by     *)
(* pixel: _mosaic_temp_tiles for the mean list, then for the count list.   *)
(***************************************************************************)
MaxInputs == 3

\* the pixels of the mosaic grid
Cells == 1 .. 2

\* a pixel of the mosaic grid seen from one temp raster: outside its extent,
\* inside with no valid observation, inside with data, or inside with a mean
\* but a count of zero
CellKinds == {"out", "empty", "data", "odd"}

\* the value tile k holds at a pixel: reproj_mean (nodata NaN) and
\* reproj_count (fillna(0), nodata 0)
TileValue(k, kind, c) ==
    IF c = "mean"
    THEN IF kind \in {"data", "odd"} THEN k ELSE NaN
    ELSE IF kind = "data" THEN k ELSE 0

\* nodata=np.nan for the mean list, nodata=0 for the count list
MergeNodataAlwaysZero(c) == 0

MergeNodata(c) == IF c = "mean" THEN NaN ELSE 0

\* the count list in another order than the mean list
PathsOfCountReversed(n, c) ==
    IF c = "mean" THEN [i \in 1 .. n |-> i] ELSE [i \in 1 .. n |-> n + 1 - i]

\* mean_tile_paths.append / count_tile_paths.append in the as_completed loop:
\* both lists name the tiles in their order of completion
PathsOf(n, c) == [i \in 1 .. n |-> i]

\* every input read into memory before the merge
OpenedPixelsReadAll(n) == n

\* src_files = [rasterio.open(p) for p in tile_paths]: handles, no pixel data
OpenedPixels(n) == 0

\* src.read(..., masked=True): pixels outside the extent or equal to the
\* raster's nodata are masked
ReadMasked(tile, k, c) ==
    [x \in Cells |->
        IF tile[x] = "out" \/ TileValue(k, tile[x], c) = MergeNodata(c)
        THEN Masked ELSE TileValue(k, tile[x], c)]

\* which pixels copyto(method='first') fills: still nodata in the destination
\* and not masked in the source
Fills(dest, src, nodata) == {x \in Cells : dest[x] = nodata /\ src[x] # Masked}

CopyFirst(dest, src, nodata) ==
    [x \in Cells |-> IF x \in Fills(dest, src, nodata) THEN src[x] ELSE dest[x]]

InitMerge ==
    /\ IdleMask
    /\ IdleStack
    /\ IdleCube
    /\ IdleOutlier
    /\ IdleAgg
    /\ IdleMosaic
    /\ IdleTiles
    /\ IdleRange
    /\ IdleParse
    /\ IdlePool
    /\ IdleGpkg
    /\ \E n \in 1 .. MaxInputs : mg_tiles \in [1 .. n -> [Cells -> CellKinds]]
    /\ mg_paths = [mean |-> <<>>, count |-> <<>>]
    /\ mg_chan = "none"
    /\ mg_pc = "start"
    /\ mg_k = 0
    /\ mg_dest = <<>>
    /\ mg_temp = <<>>
    /\ mg_held = 0
    /\ mg_from = [mean |-> [x \in Cells |-> 0], count |-> [x \in Cells |-> 0]]
    /\ mg_out = [mean |-> <<>>, count |-> <<>>]

\* for future in as_completed(futures): the two lists of temp raster paths
CollectTilePaths ==
    /\ mg_pc = "start"
    /\ mg_paths' = [mean  |-> PathsOf(Len(mg_tiles), "mean"),
                    count |-> PathsOf(Len(mg_tiles), "count")]
    /\ mg_chan' = "mean"
    /\ mg_pc' = "call"
    /\ UNCHANGED <<mg_tiles, mg_k, mg_dest, mg_temp, mg_held, mg_from, mg_out>>
    /\ UNCHANGED othersMerge

\* _mosaic_temp_tiles: the sources are opened and rasterio_merge allocates the
\* destination, filled with nodata
MosaicOpenAndAllocate ==
    /\ mg_pc = "call"
    /\ mg_dest' = [x \in Cells |-> MergeNodata(mg_chan)]
    /\ mg_held' = OpenedPixels(Len(mg_paths[mg_chan])) + 1
    /\ mg_k' = 1
    /\ mg_pc' = "read"
    /\ UNCHANGED <<mg_tiles, mg_paths, mg_chan, mg_temp, mg_from, mg_out>>
    /\ UNCHANGED othersMerge

\* rasterio_merge: the next source is read into a temporary array
MergeReadSource ==
    /\ mg_pc = "read"
    /\ mg_k <= Len(mg_paths[mg_chan])
    /\ LET k == mg_paths[mg_chan][mg_k]
       IN  mg_temp' = ReadMasked(mg_tiles[k], k, mg_chan)
    /\ mg_held' = mg_held + 1
    /\ mg_pc' = "copy"
    /\ UNCHANGED <<mg_tiles, mg_paths, mg_chan, mg_k, mg_dest, mg_from, mg_out>>
    /\ UNCHANGED othersMerge

\* rasterio_merge: the temporary array is copied into the destination and dropped
MergeCopyto ==
    /\ mg_pc = "copy"
    /\ mg_dest' = CopyFirst(mg_dest, mg_temp, MergeNodata(mg_chan))
    /\ mg_from' = [mg_from EXCEPT ![mg_chan] =
                      [x \in Cells |->
                          IF x \in Fills(mg_dest, mg_temp, MergeNodata(mg_chan))
                          THEN mg_paths[mg_chan][mg_k] ELSE @[x]]]
    /\ mg_temp' = <<>>
    /\ mg_held' = mg_held - 1
    /\ mg_k' = mg_k + 1
    /\ mg_pc' = "read"
    /\ UNCHANGED <<mg_tiles, mg_paths, mg_chan, mg_out>>
    /\ UNCHANGED othersMerge

\* return mosaic[0].astype(dtype), transform, crs: a copy of the destination
MosaicAstype ==
    /\ mg_pc = "read"
    /\ mg_k > Len(mg_paths[mg_chan])
    /\ mg_out' = [mg_out EXCEPT ![mg_chan] = mg_dest]
    /\ mg_held' = mg_held + 1
    /\ mg_pc' = "finally"
    /\ UNCHANGED <<mg_tiles, mg_paths, mg_chan, mg_k, mg_dest, mg_temp, mg_from>>
    /\ UNCHANGED othersMerge

\* finally: the sources are closed; the caller goes on with the count list
MosaicReturn ==
    /\ mg_pc = "finally"
    /\ mg_dest' = <<>>
    /\ mg_held' = 0
    /\ mg_k' = 0
    /\ mg_chan' = IF mg_chan = "mean" THEN "count" ELSE mg_chan
    /\ mg_pc' = IF mg_chan = "mean" THEN "call" ELSE "done"
    /\ UNCHANGED <<mg_tiles, mg_paths, mg_temp, mg_from, mg_out>>
    /\ UNCHANGED othersMerge

NextMerge ==
    \/ CollectTilePaths
    \/ MosaicOpenAndAllocate
    \/ MergeReadSource
    \/ MergeCopyto
    \/ MosaicAstype
    \/ MosaicReturn

SpecMerge == InitMerge /\ [][NextMerge]_vars

MeanIffCount ==
    \A k \in 1 .. Len(mg_tiles) : \A x \in Cells : mg_tiles[k][x] # "odd"

\* C27: when every tile's mean is non-nodata exactly where its count is
\* non-zero, the mean band and the count band of a window take their value at
\* every pixel from the same tile (or both from none).
C27_SameTileForMeanAndCount ==
    (mg_pc = "done" /\ MeanIffCount) =>
        \A x \in Cells : mg_from.mean[x] = mg_from.count[x]

\* a pixel that two tiles hold data for, and one that the first tile covers
\* without data: both bands took the first from tile 1 and the second from tile 2
C27_Witness ==
    /\ mg_pc = "done"
    /\ MeanIffCount
    /\ Len(mg_tiles) >= 2
    /\ mg_tiles[1] = <<"data", "empty">>
    /\ mg_tiles[2] = <<"data", "data">>
    /\ mg_from.mean = <<1, 2>>
    /\ mg_from.count = <<1, 2>>

\* no pixel is inside the extent of two tiles
DisjointFootprints ==
    \A j, k \in 1 .. Len(mg_tiles) :
        j # k => \A x \in Cells : mg_tiles[j][x] = "out" \/ mg_tiles[k][x] = "out"

Covering(x) == {k \in 1 .. Len(mg_tiles) : mg_tiles[k][x] # "out"}

\* C28: for tiles with pairwise disjoint footprints the mosaic does not depend
\* on the order of the list: a pixel inside a tile holds that tile's value and
\* a pixel inside none holds the nodata of the call (NaN mean, 0 count).
C28_DisjointMosaicIsOrderFree ==
    (mg_pc = "done" /\ DisjointFootprints) =>
        \A c \in {"mean", "count"} : \A x \in Cells :
            mg_out[c][x] =
                IF Covering(x) = {} THEN (IF c = "mean" THEN NaN ELSE 0)
                ELSE LET k == CHOOSE k \in Covering(x) : TRUE
                     IN  TileValue(k, mg_tiles[k][x], c)

\* two disjoint tiles in the order (2 covers pixel 2, 1 covers nothing there),
\* the mosaic holds each tile's value at its own pixel
C28_Witness ==
    /\ mg_pc = "done"
    /\ DisjointFootprints
    /\ Len(mg_tiles) = 2
    /\ mg_tiles[1] = <<"out", "data">>
    /\ mg_tiles[2] = <<"data", "out">>
    /\ mg_out.mean = <<2, 1>>
    /\ mg_out.count = <<2, 1>>

(***************************************************************************)
(* Steps 04/05 and 09/10: one dispatch of a ProcessPoolExecutor, from the  *)
(* list of cubes found to the last result collected.                       *)
(***************************************************************************)
MaxUnits == 3

\* N_WORKERS: the processes of the pool
NWorkers == 2

\* the index of the dispatch
PoolVi == "NDVI"

\* <tile>_<vi>.nc, the cube step 03 writes
CubeName(tile, vi) == <<tile, "_", vi, ".", "nc">>

\* <tile>_<vi>_chunkNN.nc, a chunk file of step 03
ChunkName(tile, vi) == <<tile, "_", vi, "_", "chunk02", ".", "nc">>

\* what NETCDF_DIR can hold: cubes of two tiles and two indices, and a chunk
\* file that a killed run of step 03 left
NcNames ==
    <<CubeName("T1", "NDVI"), ChunkName("T1", "NDVI"), CubeName("T2", "NDVI"),
      CubeName("T1", "EVI2")>>

\* [f for f in all_nc if vi in os.path.basename(f)]
MatchesVi(path, vi) == \E k \in 1 .. Len(Basename(path)) : Basename(path)[k] = vi

WorkItems(found, vi) == SelectSeq(found, LAMBDA f : MatchesVi(f, vi))

\* filename.replace(".nc", suffix)
ReplaceNc(filename, suffix) ==
    IF Len(filename) >= 2 /\ SubSeq(filename, Len(filename) - 1, Len(filename)) = <<".", "nc">>
    THEN SubSeq(filename, 1, Len(filename) - 2) \o suffix
    ELSE filename

\* filename.split('_')[0] if '_' in filename else filename.replace('.nc', '')
WorkerTileId(filename) ==
    IF \E k \in 1 .. Len(filename) : filename[k] = "_"
    THEN SplitOn(filename, "_")[1]
    ELSE ReplaceNc(filename, <<>>)

\* the file a worker writes: step 04 names it after the cube file, step 09
\* after the tile and the index
OutputPath(stage, nc_path, vi) ==
    IF stage = "04"
    THEN ReplaceNc(Basename(nc_path), <<"_", "average", "_", vi, "_", "EPSG", ".", "tif">>)
    ELSE WorkerTileId(Basename(nc_path)) \o <<"_", vi, "_", "count", ".", "tif">>

\* a worker without the try/except: the exception reaches the future
WorkerResultUncaught(outcome) == IF outcome = "raise" THEN "raised" ELSE outcome

\* except Exception as e: return the error-tagged result
WorkerResult(outcome) == IF outcome = "raise" THEN "error" ELSE outcome

Unit(st, res) == [st |-> st, res |-> res]

Running == {i \in 1 .. Len(pl_items) : pl_state[i].st \in {"running", "writing"}}

InitPool ==
    /\ IdleMask
    /\ IdleStack
    /\ IdleCube
    /\ IdleOutlier
    /\ IdleAgg
    /\ IdleMosaic
    /\ IdleTiles
    /\ IdleRange
    /\ IdleParse
    /\ IdleMerge
    /\ IdleGpkg
    /\ pl_stage \in {"04", "09"}
    /\ \E keep \in SUBSET (1 .. Len(NcNames)) :
          /\ keep # {}
          /\ Cardinality(keep) <= MaxUnits
          /\ pl_found = SelectSeq(NcNames, LAMBDA f : \E k \in keep : NcNames[k] = f)
    /\ pl_items = <<>>
    /\ pl_state = <<>>
    /\ pl_collected = <<>>
    /\ pl_pc = "start"

\* no cube of this index: "No NetCDF files found - skipping"
PoolNoItems ==
    /\ pl_pc = "start"
    /\ WorkItems(pl_found, PoolVi) = <<>>
    /\ pl_pc' = "done"
    /\ UNCHANGED <<pl_stage, pl_found, pl_items, pl_state, pl_collected>>
    /\ UNCHANGED othersPool

\* futures = {executor.submit(worker, a): a for a in worker_args}
PoolSubmit ==
    /\ pl_pc = "start"
    /\ WorkItems(pl_found, PoolVi) # <<>>
    /\ pl_items' = WorkItems(pl_found, PoolVi)
    /\ pl_state' = [i \in 1 .. Len(WorkItems(pl_found, PoolVi)) |-> Unit("pending", "none")]
    /\ pl_pc' = "pool"
    /\ UNCHANGED <<pl_stage, pl_found, pl_collected>>
    /\ UNCHANGED othersPool

\* a free process of the pool takes the next pending item
WorkerStart(i) ==
    /\ pl_pc = "pool"
    /\ pl_state[i].st = "pending"
    /\ Cardinality(Running) < NWorkers
    /\ pl_state' = [pl_state EXCEPT ![i] = Unit("running", "none")]
    /\ UNCHANGED <<pl_stage, pl_found, pl_items, pl_collected, pl_pc>>
    /\ UNCHANGED othersPool

\* the worker returns before it writes: its output exists, the variable or the
\* CRS is missing, or the open or the computation raised
WorkerReturnEarly(i) ==
    /\ pl_pc = "pool"
    /\ pl_state[i].st = "running"
    /\ \E outcome \in {"skip", "raise"} :
          pl_state' = [pl_state EXCEPT ![i] = Unit("returned", WorkerResult(outcome))]
    /\ UNCHANGED <<pl_stage, pl_found, pl_items, pl_collected, pl_pc>>
    /\ UNCHANGED othersPool

\* rio.to_raster(output_path, ...): the worker writes its output file
WorkerWrite(i) ==
    /\ pl_pc = "pool"
    /\ pl_state[i].st = "running"
    /\ pl_state' = [pl_state EXCEPT ![i] = Unit("writing", "none")]
    /\ UNCHANGED <<pl_stage, pl_found, pl_items, pl_collected, pl_pc>>
    /\ UNCHANGED othersPool

\* the write ends or raises, and the worker returns
WorkerReturn(i) ==
    /\ pl_pc = "pool"
    /\ pl_state[i].st = "writing"
    /\ \E outcome \in {"ok", "raise"} :
          pl_state' = [pl_state EXCEPT ![i] = Unit("returned", WorkerResult(outcome))]
    /\ UNCHANGED <<pl_stage, pl_found, pl_items, pl_collected, pl_pc>>
    /\ UNCHANGED othersPool

\* for future in as_completed(futures): result = future.result(), which raises
\* in the orchestrator what the worker raised
PoolCollect(i) ==
    /\ pl_pc = "pool"
    /\ pl_state[i].st = "returned"
    /\ IF pl_state[i].res = "raised"
       THEN /\ pl_pc' = "aborted"
            /\ UNCHANGED <<pl_state, pl_collected>>
       ELSE /\ pl_state' = [pl_state EXCEPT ![i].st = "collected"]
            /\ pl_collected' = Append(pl_collected, <<i, pl_state[i].res>>)
            /\ pl_pc' = IF \A j \in 1 .. Len(pl_items) :
                               j # i => pl_state[j].st = "collected"
                        THEN "done" ELSE "pool"
    /\ UNCHANGED <<pl_stage, pl_found, pl_items>>
    /\ UNCHANGED othersPool

NextPool ==
    \/ PoolNoItems
    \/ PoolSubmit
    \/ \E i \in 1 .. Len(pl_items) :
          \/ WorkerStart(i)
          \/ WorkerReturnEarly(i)
          \/ WorkerWrite(i)
          \/ WorkerReturn(i)
          \/ PoolCollect(i)

SpecPool == InitPool /\ [][NextPool]_vars

(***************************************************************************)
(* Claims about the pool stages.                                           *)
(***************************************************************************)
\* C25: the orchestrator is never aborted by a worker; a worker that returned
\* holds an ok, skip or error result, never an exception; and when the
\* dispatch is over every submitted unit has given exactly one result.
C25_EveryUnitYieldsOneResult ==
    /\ pl_pc # "aborted"
    /\ \A i \in 1 .. Len(pl_items) :
          pl_state[i].st \in {"returned", "collected"} =>
              pl_state[i].res \in {"ok", "skip", "error"}
    /\ \A i \in 1 .. Len(pl_items) :
          Cardinality({k \in 1 .. Len(pl_collected) : pl_collected[k][1] = i}) =
              IF pl_state[i].st = "collected" THEN 1 ELSE 0
    /\ pl_pc = "done" =>
          \A i \in 1 .. Len(pl_items) : pl_state[i].st = "collected"

\* the first unit collected failed, and the two others were collected after it
\* with their own results
C25_Witness ==
    /\ pl_pc = "done"
    /\ Len(pl_collected) = 3
    /\ pl_collected[1][2] = "error"
    /\ pl_collected[2][2] = "ok"
    /\ pl_collected[3][2] = "ok"

\* C26: no two workers of one dispatch that run at the same time write the
\* same file path.
C26_NoSharedOutputPath ==
    \A i, j \in 1 .. Len(pl_items) :
        (i # j /\ pl_state[i].st = "writing" /\ pl_state[j].st = "writing") =>
            OutputPath(pl_stage, pl_items[i], PoolVi) #
                OutputPath(pl_stage, pl_items[j], PoolVi)

(***************************************************************************)
(* Step 11: the outlier GeoPackage of one index, streamed cube by cube and *)
(* chunk by chunk, and the whole-array extraction of step 10 (gpkg).       *)
(***************************************************************************)
MaxTimes == 3

\* the pixels of a plane, in the order np.where lists them
GpPixels == 1 .. 2

\* the planes a cube can hold: inside the bounds, below and above them, NaN,
\* infinite, and cells never written (the variable's fill value)
Planes ==
    {<<0, 0>>, <<-2, 0>>, <<2, -2>>, <<NaN, 2>>, <<DefaultFillValue, PosInf>>}

\* time_vals[t]: days since 1970-01-01 of time index t (from 0)
TimeOf(t) == 100 + 16 * t

\* a cube of n time steps: has it a CRS, and its planes
CubesOf(n) == [crs : BOOLEAN, planes : [1 .. n -> Planes]]

\* a cube with outliers at both time steps
FixedCube == [crs |-> TRUE, planes |-> <<<<-2, 0>>, <<2, -2>>>>]

\* raw.filled(np.nan): netCDF4 masks the cells equal to the fill value
Filled(v) == IF v = DefaultFillValue THEN NaN ELSE v

\* np.isfinite(data) & ((data < vmin) | (data > vmax))
OutlierMask(v, bounds) ==
    /\ v \notin {NaN, PosInf, NegInf}
    /\ (Lt(v, bounds[1]) \/ Gt(v, bounds[2]))

\* np.where(mask) over an array of n planes: (time, pixel) in row-major order,
\* time from 0
WhereIndices(n) ==
    [k \in 1 .. n * Cardinality(GpPixels) |->
        <<(k - 1) \div Cardinality(GpPixels), ((k - 1) % Cardinality(GpPixels)) + 1>>]

\* the time index without the start of the chunk
TGlobalChunkLocal(ct_idx, t_start) == ct_idx

\* t_global = ct_idx + t_start
TGlobal(ct_idx, t_start) == ct_idx + t_start

\* one feature: tile, sensor and date of time index t, pixel and value
Feature(tile, t, p, v) ==
    [tile_id |-> tile, sensor |-> SensorOf(t + 1), date |-> TimeOf(t), pixel |-> p,
     vi_value |-> v]

\* iter_tile_chunks: the features of the chunk [t_start, t_end)
ChunkFeatures(nc, tile, t_start, t_end, bounds) ==
    LET data_chunk == [i \in 1 .. t_end - t_start |->
                          [p \in GpPixels |-> Filled(nc.planes[t_start + i][p])]]
        hits == SelectSeq(WhereIndices(t_end - t_start),
                          LAMBDA c : OutlierMask(data_chunk[c[1] + 1][c[2]], bounds))
    IN  [k \in 1 .. Len(hits) |->
            Feature(tile, TGlobal(hits[k][1], t_start), hits[k][2],
                    data_chunk[hits[k][1] + 1][hits[k][2]])]

\* extract_outliers of step 10: the records of the whole array, none without CRS
extract_outliers(nc, tile, bounds) ==
    LET data == [i \in 1 .. Len(nc.planes) |->
                    [p \in GpPixels |-> Filled(nc.planes[i][p])]]
        hits == SelectSeq(WhereIndices(Len(nc.planes)),
                          LAMBDA c : OutlierMask(data[c[1] + 1][c[2]], bounds))
    IN  IF ~nc.crs THEN <<>>
        ELSE [k \in 1 .. Len(hits) |->
                 Feature(tile, hits[k][1], hits[k][2], data[hits[k][1] + 1][hits[k][2]])]

InitGpkg ==
    /\ IdleMask
    /\ IdleStack
    /\ IdleCube
    /\ IdleOutlier
    /\ IdleAgg
    /\ IdleMosaic
    /\ IdleTiles
    /\ IdleRange
    /\ IdleParse
    /\ IdleMerge
    /\ IdlePool
    /\ \E n \in 1 .. MaxTimes : \E nc \in CubesOf(n) :
          gp_cubes \in {<<nc>>, <<nc, FixedCube>>, <<FixedCube, nc>>}
    /\ gp_time_chunk \in 1 .. MaxTimes
    /\ gp_bounds \in {<<VMin, VMax>>, <<-2, 2>>}
    /\ gp_pc = "start"
    /\ gp_tile_idx = 0
    /\ gp_t_start = 0
    /\ gp_yielded = <<>>
    /\ gp_last = "none"
    /\ gp_n_tile_out = 0
    /\ gp_total = 0
    /\ gp_features \in {<<>>, <<Feature(0, 0, 1, -2)>>}
    /\ gp_exists = (gp_features # <<>>)

\* an existing GeoPackage is removed and a new one opened for writing
GpkgOpen ==
    /\ gp_pc = "start"
    /\ gp_features' = <<>>
    /\ gp_exists' = TRUE
    /\ gp_total' = 0
    /\ gp_tile_idx' = 1
    /\ gp_pc' = "tile"
    /\ UNCHANGED <<gp_cubes, gp_time_chunk, gp_bounds, gp_t_start, gp_yielded, gp_last,
                   gp_n_tile_out>>
    /\ UNCHANGED othersGpkg

\* for tile_idx, nc_path in enumerate(work_items, 1): n_tile_out = 0, the
\* generator is created
TileBegin ==
    /\ gp_pc = "tile"
    /\ gp_tile_idx <= Len(gp_cubes)
    /\ gp_n_tile_out' = 0
    /\ gp_t_start' = 0
    /\ gp_yielded' = <<>>
    /\ gp_last' = "running"
    /\ gp_pc' = "chunk"
    /\ UNCHANGED <<gp_cubes, gp_time_chunk, gp_bounds, gp_tile_idx, gp_total, gp_features,
                   gp_exists>>
    /\ UNCHANGED othersGpkg

\* no CRS in the cube: the generator returns without a chunk
IterNoCrs ==
    /\ gp_pc = "chunk"
    /\ gp_t_start = 0
    /\ ~gp_cubes[gp_tile_idx].crs
    /\ gp_last' = "exhausted"
    /\ gp_pc' = "tile_end"
    /\ UNCHANGED <<gp_cubes, gp_time_chunk, gp_bounds, gp_tile_idx, gp_t_start, gp_yielded,
                   gp_n_tile_out, gp_total, gp_features, gp_exists>>
    /\ UNCHANGED othersGpkg

\* one pass of 'for t_start in range(0, n_times, TIME_CHUNK)': a chunk without
\* outliers is passed over, the features of another are yielded, written with
\* dst.writerecords and counted
IterChunk ==
    /\ gp_pc = "chunk"
    /\ gp_cubes[gp_tile_idx].crs
    /\ gp_t_start < Len(gp_cubes[gp_tile_idx].planes)
    /\ LET t_end    == Min(gp_t_start + gp_time_chunk, Len(gp_cubes[gp_tile_idx].planes))
           features == ChunkFeatures(gp_cubes[gp_tile_idx], gp_tile_idx, gp_t_start,
                                     t_end, gp_bounds)
       IN  /\ gp_yielded' = gp_yielded \o features
           /\ gp_features' = gp_features \o features
           /\ gp_n_tile_out' = gp_n_tile_out + Len(features)
           /\ gp_t_start' = t_end
    /\ UNCHANGED <<gp_cubes, gp_time_chunk, gp_bounds, gp_pc, gp_tile_idx, gp_last, gp_total,
                   gp_exists>>
    /\ UNCHANGED othersGpkg

\* the generator is exhausted: total_outliers += n_tile_out
IterExhausted ==
    /\ gp_pc = "chunk"
    /\ gp_cubes[gp_tile_idx].crs
    /\ gp_t_start >= Len(gp_cubes[gp_tile_idx].planes)
    /\ gp_last' = "exhausted"
    /\ gp_pc' = "tile_end"
    /\ UNCHANGED <<gp_cubes, gp_time_chunk, gp_bounds, gp_tile_idx, gp_t_start, gp_yielded,
                   gp_n_tile_out, gp_total, gp_features, gp_exists>>
    /\ UNCHANGED othersGpkg

\* opening the cube or reading a chunk raises: except Exception: print, continue
TileRaises ==
    /\ gp_pc = "chunk"
    /\ gp_t_start < Len(gp_cubes[gp_tile_idx].planes)
    /\ gp_last' = "raised"
    /\ gp_pc' = "tile_end"
    /\ UNCHANGED <<gp_cubes, gp_time_chunk, gp_bounds, gp_tile_idx, gp_t_start, gp_yielded,
                   gp_n_tile_out, gp_total, gp_features, gp_exists>>
    /\ UNCHANGED othersGpkg

\* the end of the loop body: the count of the tile is added unless it raised
TileEnd ==
    /\ gp_pc = "tile_end"
    /\ gp_total' = IF gp_last = "raised" THEN gp_total ELSE gp_total + gp_n_tile_out
    /\ gp_tile_idx' = gp_tile_idx + 1
    /\ gp_pc' = "tile"
    /\ UNCHANGED <<gp_cubes, gp_time_chunk, gp_bounds, gp_t_start, gp_yielded, gp_last,
                   gp_n_tile_out, gp_features, gp_exists>>
    /\ UNCHANGED othersGpkg

\* after the last tile: "Wrote ... features", or the GeoPackage is removed
GpkgClose ==
    /\ gp_pc = "tile"
    /\ gp_tile_idx > Len(gp_cubes)
    /\ gp_exists' = (gp_total > 0)
    /\ gp_pc' = "done"
    /\ UNCHANGED <<gp_cubes, gp_time_chunk, gp_bounds, gp_tile_idx, gp_t_start, gp_yielded,
                   gp_last, gp_n_tile_out, gp_total, gp_features>>
    /\ UNCHANGED othersGpkg

NextGpkg ==
    \/ GpkgOpen
    \/ TileBegin
    \/ IterNoCrs
    \/ IterChunk
    \/ IterExhausted
    \/ TileRaises
    \/ TileEnd
    \/ GpkgClose

SpecGpkg == InitGpkg /\ [][NextGpkg]_vars

(***************************************************************************)
(* Claims about step 11.                                                   *)
(***************************************************************************)
\* the records in gp_yielded for time index t (from 0) and pixel p
RecordsAt(t, p) ==
    {k \in 1 .. Len(gp_yielded) :
        gp_yielded[k].date = TimeOf(t) /\ gp_yielded[k].pixel = p}

\* C29: when the generator of a cube is exhausted, the records it has yielded
\* over all chunks are those extract_outliers returns for the cube, and for a
\* cube with a CRS there is exactly one record for every time step and pixel
\* whose value is finite and outside [vmin, vmax], with the date and the sensor
\* of that time step, and no other record.
C29_StreamingEqualsWholeArray ==
    (gp_pc = "tile_end" /\ gp_last = "exhausted") =>
        LET nc  == gp_cubes[gp_tile_idx]
            whole == extract_outliers(nc, gp_tile_idx, gp_bounds)
        IN  /\ Range(gp_yielded) = Range(whole)
            /\ Len(gp_yielded) = Len(whole)
            /\ nc.crs =>
                  \A t \in 0 .. Len(nc.planes) - 1 : \A p \in GpPixels :
                      LET v == Filled(nc.planes[t + 1][p])
                      IN  IF /\ v \notin {NaN, PosInf, NegInf}
                             /\ (v < gp_bounds[1] \/ v > gp_bounds[2])
                          THEN /\ Cardinality(RecordsAt(t, p)) = 1
                               /\ \A k \in RecordsAt(t, p) :
                                     /\ gp_yielded[k].sensor = SensorOf(t + 1)
                                     /\ gp_yielded[k].vi_value = v
                          ELSE RecordsAt(t, p) = {}

\* three time steps read in chunks of two: an outlier in the first chunk and
\* one in the second, at its first local index
C29_Witness ==
    /\ gp_pc = "tile_end"
    /\ gp_last = "exhausted"
    /\ gp_time_chunk = 2
    /\ gp_cubes[gp_tile_idx].crs
    /\ gp_cubes[gp_tile_idx].planes = <<<<-2, 0>>, <<0, 0>>, <<NaN, 2>>>>
    /\ Len(gp_yielded) = 2
    /\ gp_yielded[2].date = TimeOf(2)

\* C30: when all tiles are processed, total_outliers is the number of features
\* written to the GeoPackage, and the GeoPackage has been removed only if no
\* feature was written to it.
C30_TotalIsFeaturesWritten ==
    gp_pc = "done" =>
        /\ gp_total = Len(gp_features)
        /\ ~gp_exists => gp_features = <<>>

====
